---- MODULE Spec2Model ----
(***************************************************************************)
(* Model of the metrics collection engine of fastapi-metrics-monitoring:   *)
(* HTTPMetricsCollector (app/metrics/http_metrics.py), MetricsMiddleware   *)
(* (app/middleware/metrics_middleware.py), SystemMetricsCollector          *)
(* (app/metrics/system_metrics.py) and the lifespan / background sampler   *)
(* of app/main.py.                                                         *)
(*                                                                         *)
(* Python strings that the code takes apart (paths, status labels) are     *)
(* sequences of one-character strings; strings that are only compared      *)
(* (methods, error names) are TLA+ strings.  Optional[x] is <<>> for None  *)
(* and <<x>> for a value.  time.time() is read in whole seconds.           *)
(***************************************************************************)
EXTENDS Integers, Sequences, FiniteSets, TLC

VARIABLES
    http_metrics,    \* the global HTTPMetricsCollector instance
    now,             \* the last value time.time() returned
    call,            \* the last call made on the collector and what it returned
    started,         \* request id -> number of start_request calls that returned it
    decremented,     \* request id -> number of gauge decrements by finish_request(id)
    appended,        \* every timestamp start_request appended to the history, in order
    finished,        \* what the finish_request calls that found their request in flight were given
    mw,              \* request -> the state of its MetricsMiddleware.dispatch call
    system_metrics,  \* the global SystemMetricsCollector instance
    lifespan_pc,     \* where the lifespan context manager of the application is
    task,            \* the background task running collect_system_metrics
    sampler          \* what the background task did: passes, last result, ...

vars == <<http_metrics, now, call, started, decremented, appended, finished,
          mw, system_metrics, lifespan_pc, task, sampler>>

----------------------------------------------------------------------------
(* Bounds of the model *)

MaxClock == 1
MaxCalls == 3
MaxRequests == 2
MaxTicks == 3
ExtraStarts == 500
MaxStatusCode == 700
MaxPathLen == 5
MaxLabelCalls == 4
MaxRateCalls == 4
MaxHealthCalls == 3
MaxTrendCalls == 3
MaxFrameCalls == 2

(* Constants of the program *)

HistoryLimit == 1000
RateWindow == 60
SlowThreshold == 1

None == <<>>
Some(x) == <<x>>

----------------------------------------------------------------------------
(* Strings *)

Digits == {"0", "1", "2", "3", "4", "5", "6", "7", "8", "9"}

DigitChar(d) ==
    CASE d = 0 -> "0" [] d = 1 -> "1" [] d = 2 -> "2" [] d = 3 -> "3"
      [] d = 4 -> "4" [] d = 5 -> "5" [] d = 6 -> "6" [] d = 7 -> "7"
      [] d = 8 -> "8" [] d = 9 -> "9"

RECURSIVE NatStr(_)
NatStr(n) == IF n < 10 THEN <<DigitChar(n)>>
             ELSE Append(NatStr(n \div 10), DigitChar(n % 10))

\* str(status_code)
Str(n) == IF n < 0 THEN <<"-">> \o NatStr(-n) ELSE NatStr(n)

\* path.split(sep)[0]: the text before the first sep
RECURSIVE BeforeFirst(_, _)
BeforeFirst(s, sep) ==
    IF s = <<>> \/ Head(s) = sep THEN <<>>
    ELSE <<Head(s)>> \o BeforeFirst(Tail(s), sep)

\* path.split(sep): the pieces between the separators, empty ones included
RECURSIVE Split(_, _)
Split(s, sep) ==
    IF \A i \in 1..Len(s) : s[i] # sep THEN <<s>>
    ELSE LET first == BeforeFirst(s, sep)
         IN  <<first>> \o Split(SubSeq(s, Len(first) + 2, Len(s)), sep)

\* sep.join(parts)
RECURSIVE Join(_, _)
Join(parts, sep) ==
    IF Len(parts) = 0 THEN <<>>
    ELSE IF Len(parts) = 1 THEN parts[1]
    ELSE parts[1] \o <<sep>> \o Join(Tail(parts), sep)

\* characters for which str.isdigit() is true and str.isdecimal() is false:
\* the superscript digits and the like; the superscript two stands for them
OtherDigits == {"²"}

\* what int() takes: a non-empty run of decimal digits
IsDecimal(part) == Len(part) > 0 /\ \A i \in 1..Len(part) : part[i] \in Digits

\* part.isdigit()
IsDigit(part) ==
    Len(part) > 0 /\ \A i \in 1..Len(part) : part[i] \in Digits \cup OtherDigits

IdPlaceholder == <<"{", "i", "d", "}">>

NormalizePart(part) ==
    IF IsDigit(part) THEN IdPlaceholder
    ELSE IF Len(part) > 0 /\ part[1] = "{" /\ part[Len(part)] = "}" THEN part
    ELSE part

\* path.rsplit(sep, 1)[0]: the text before the last sep
RECURSIVE BeforeLast(_, _)
BeforeLast(s, sep) ==
    IF s = <<>> THEN <<>>
    ELSE IF s[Len(s)] = sep THEN SubSeq(s, 1, Len(s) - 1)
    ELSE BeforeLast(SubSeq(s, 1, Len(s) - 1), sep)

\* _normalize_endpoint with rsplit('?', 1)[0] for split('?')[0]
_normalize_endpoint_rsplit(path) ==
    LET stripped == IF \E i \in 1..Len(path) : path[i] = "?"
                    THEN BeforeLast(path, "?") ELSE path
        parts == Split(stripped, "/")
    IN  Join([i \in 1..Len(parts) |-> NormalizePart(parts[i])], "/")

_normalize_endpoint(path) ==
    LET stripped == IF \E i \in 1..Len(path) : path[i] = "?"
                    THEN BeforeFirst(path, "?") ELSE path
        parts == Split(stripped, "/")
    IN  Join([i \in 1..Len(parts) |-> NormalizePart(parts[i])], "/")

\* _get_status_class with "<=" for "<" at the upper end of each range
_get_status_class_inclusive(status_code) ==
    IF 100 <= status_code /\ status_code <= 200 THEN "1xx"
    ELSE IF 200 <= status_code /\ status_code <= 300 THEN "2xx"
    ELSE IF 300 <= status_code /\ status_code <= 400 THEN "3xx"
    ELSE IF 400 <= status_code /\ status_code <= 500 THEN "4xx"
    ELSE IF 500 <= status_code /\ status_code <= 600 THEN "5xx"
    ELSE "unknown"

_get_status_class(status_code) ==
    IF 100 <= status_code /\ status_code < 200 THEN "1xx"
    ELSE IF 200 <= status_code /\ status_code < 300 THEN "2xx"
    ELSE IF 300 <= status_code /\ status_code < 400 THEN "3xx"
    ELSE IF 400 <= status_code /\ status_code < 500 THEN "4xx"
    ELSE IF 500 <= status_code /\ status_code < 600 THEN "5xx"
    ELSE "unknown"

_classify_error_by_status(status_code) ==
    IF status_code = 400 THEN "bad_request"
    ELSE IF status_code = 401 THEN "unauthorized"
    ELSE IF status_code = 403 THEN "forbidden"
    ELSE IF status_code = 404 THEN "not_found"
    ELSE IF status_code = 405 THEN "method_not_allowed"
    ELSE IF status_code = 422 THEN "validation_error"
    ELSE IF status_code = 429 THEN "rate_limited"
    ELSE IF 400 <= status_code /\ status_code < 500 THEN "client_error"
    ELSE IF status_code = 500 THEN "internal_server_error"
    ELSE IF status_code = 502 THEN "bad_gateway"
    ELSE IF status_code = 503 THEN "service_unavailable"
    ELSE IF 500 <= status_code /\ status_code < 600 THEN "server_error"
    ELSE "unknown_error"

----------------------------------------------------------------------------
(* prometheus_client metrics: a labelled Counter or Histogram is a function *)
(* from the label tuples used so far (labels() creates the child) to value. *)

NoSeries == [l \in {} |-> 0]

\* Counter.labels(...).inc()
Inc(metric, labels) ==
    IF labels \in DOMAIN metric
    THEN [metric EXCEPT ![labels] = @ + 1]
    ELSE (labels :> 1) @@ metric

\* Histogram.labels(...).observe(v): the count and the sum of the observations
Observe(metric, labels, v) ==
    IF labels \in DOMAIN metric
    THEN [metric EXCEPT ![labels] = [count |-> @.count + 1, sum |-> @.sum + v]]
    ELSE (labels :> [count |-> 1, sum |-> v]) @@ metric

\* sum(counter._value._value for counter in metric._metrics.values())
RECURSIVE SumOver(_, _)
SumOver(metric, keys) ==
    IF keys = {} THEN 0
    ELSE LET k == CHOOSE x \in keys : TRUE
         IN  metric[k] + SumOver(metric, keys \ {k})

Total(metric) == SumOver(metric, DOMAIN metric)

\* the truth value of an Optional[str]: None and "" are false
Truthy(opt) == opt # None /\ opt[1] # ""

----------------------------------------------------------------------------
(* HTTPMetricsCollector *)

\* HTTPMetricsCollector.__init__
NewHTTPMetricsCollector ==
    [ http_requests_total           |-> NoSeries,
      http_request_duration_seconds |-> NoSeries,
      http_request_size_bytes       |-> NoSeries,
      http_response_size_bytes      |-> NoSeries,
      http_requests_active          |-> 0,
      http_request_errors_total     |-> NoSeries,
      http_requests_by_status       |-> NoSeries,
      http_request_rate_per_second  |-> 0,
      http_slow_requests_total      |-> NoSeries,
      active_requests               |-> NoSeries,
      request_history               |-> <<>> ]

\* f"{method}_{path}_{time.time()}_{id(self)}": id(self) is the one global collector
RequestId(method, path, t) == <<method, path, t, "http_metrics">>

\* AppendHistory with pop() for pop(0): the newest entry is removed
AppendHistory_pop_last(history, t) ==
    LET h == Append(history, t)
    IN  IF Len(h) > HistoryLimit THEN SubSeq(h, 1, Len(h) - 1) ELSE h

\* self.request_history.append(t); if len(...) > 1000: self.request_history.pop(0)
AppendHistory(history, t) ==
    LET h == Append(history, t)
    IN  IF Len(h) > HistoryLimit THEN Tail(h) ELSE h

\* start_request whose in-flight map keeps only the entry of the last start
start_request_single_slot(c, method, path, request_size, t1, t2, t3) ==
    LET request_id == RequestId(method, path, t1)
        c1 == [c EXCEPT
                 !.http_requests_active = @ + 1,
                 !.active_requests = (request_id :> t2),
                 !.request_history = AppendHistory(@, t3)]
        c2 == IF request_size # None
              THEN [c1 EXCEPT !.http_request_size_bytes =
                        Observe(@, <<method, _normalize_endpoint(path)>>, request_size[1])]
              ELSE c1
    IN  [collector |-> c2, request_id |-> request_id]

\* start_request; t1, t2, t3 are its three readings of time.time().
\* The result is the collector afterwards and the request id returned.
start_request(c, method, path, request_size, t1, t2, t3) ==
    LET request_id == RequestId(method, path, t1)
        c1 == [c EXCEPT
                 !.http_requests_active = @ + 1,
                 !.active_requests = (request_id :> t2) @@ @,
                 !.request_history = AppendHistory(@, t3)]
        c2 == IF request_size # None
              THEN [c1 EXCEPT !.http_request_size_bytes =
                        Observe(@, <<method, _normalize_endpoint(path)>>, request_size[1])]
              ELSE c1
    IN  [collector |-> c2, request_id |-> request_id]

\* _update_request_rate that also drops the entries older than a minute from
\* the history
_update_request_rate_pruning(c, t) ==
    LET minute_ago == t - RateWindow
        recent_requests == {i \in 1..Len(c.request_history) :
                               c.request_history[i] > minute_ago}
    IN  [c EXCEPT !.http_request_rate_per_second = Cardinality(recent_requests),
                  !.request_history = SelectSeq(@, LAMBDA x : x > minute_ago)]

\* _update_request_rate; t is its reading of time.time().  The gauge is kept
\* in requests per RateWindow seconds (the code divides the count by 60.0).
_update_request_rate(c, t) ==
    LET minute_ago == t - RateWindow
        recent_requests == {i \in 1..Len(c.request_history) :
                               c.request_history[i] > minute_ago}
    IN  [c EXCEPT !.http_request_rate_per_second = Cardinality(recent_requests)]

\* TotalLabels with the raw path for the normalized endpoint
TotalLabels_raw_path(method, path, status_code) ==
    <<method, path, Str(status_code)>>

\* the labels of the http_requests_total series a completion is counted on
TotalLabels(method, path, status_code) ==
    <<method, _normalize_endpoint(path), Str(status_code)>>

\* IsError with 500 for 400
IsError_server_only(error_type, status_code) ==
    Truthy(error_type) \/ status_code >= 500

\* if error_type or status_code >= 400
IsError(error_type, status_code) == Truthy(error_type) \/ status_code >= 400

\* error_type or self._classify_error_by_status(status_code)
ErrorLabel(error_type, status_code) ==
    IF Truthy(error_type) THEN error_type[1]
    ELSE _classify_error_by_status(status_code)

\* RecordCompletion that counts a completion with an error on the error
\* counter only, not on http_requests_total
RecordCompletion_total_on_success(c, request_id, method, path, status_code, response_size, error_type, t1, t2) ==
    LET start_time == c.active_requests[request_id]
        duration == t1 - start_time
        endpoint == _normalize_endpoint(path)
        status_class == _get_status_class(status_code)
        c1 == [c EXCEPT
                 !.active_requests =
                     [k \in (DOMAIN @) \ {request_id} |-> @[k]],
                 !.http_requests_active = @ - 1,
                 !.http_requests_total =
                     IF IsError(error_type, status_code) THEN @
                     ELSE Inc(@, TotalLabels(method, path, status_code)),
                 !.http_request_duration_seconds = Observe(@, <<method, endpoint>>, duration)]
        c2 == IF response_size # None
              THEN [c1 EXCEPT !.http_response_size_bytes =
                        Observe(@, <<method, endpoint, Str(status_code)>>, response_size[1])]
              ELSE c1
        c3 == [c2 EXCEPT !.http_requests_by_status = Inc(@, <<status_class, method>>)]
        c4 == IF duration > SlowThreshold
              THEN [c3 EXCEPT !.http_slow_requests_total = Inc(@, <<method, endpoint>>)]
              ELSE c3
        c5 == IF IsError(error_type, status_code)
              THEN [c4 EXCEPT !.http_request_errors_total =
                        Inc(@, << method, endpoint,
                                  ErrorLabel(error_type, status_code),
                                  Str(status_code) >>)]
              ELSE c4
    IN  _update_request_rate(c5, t2)

\* the part of finish_request after the guard, for a request in flight
RecordCompletion(c, request_id, method, path, status_code, response_size, error_type, t1, t2) ==
    LET start_time == c.active_requests[request_id]
        duration == t1 - start_time
        endpoint == _normalize_endpoint(path)
        status_class == _get_status_class(status_code)
        c1 == [c EXCEPT
                 !.active_requests =
                     [k \in (DOMAIN @) \ {request_id} |-> @[k]],
                 !.http_requests_active = @ - 1,
                 !.http_requests_total = Inc(@, TotalLabels(method, path, status_code)),
                 !.http_request_duration_seconds = Observe(@, <<method, endpoint>>, duration)]
        c2 == IF response_size # None
              THEN [c1 EXCEPT !.http_response_size_bytes =
                        Observe(@, <<method, endpoint, Str(status_code)>>, response_size[1])]
              ELSE c1
        c3 == [c2 EXCEPT !.http_requests_by_status = Inc(@, <<status_class, method>>)]
        c4 == IF duration > SlowThreshold
              THEN [c3 EXCEPT !.http_slow_requests_total = Inc(@, <<method, endpoint>>)]
              ELSE c3
        c5 == IF IsError(error_type, status_code)
              THEN [c4 EXCEPT !.http_request_errors_total =
                        Inc(@, << method, endpoint,
                                  ErrorLabel(error_type, status_code),
                                  Str(status_code) >>)]
              ELSE c4
    IN  _update_request_rate(c5, t2)

\* finish_request whose guard comes after the decrement of the gauge
finish_request_decrement_first(c, request_id, method, path, status_code, response_size, error_type, t1, t2) ==
    IF request_id \notin DOMAIN c.active_requests
    THEN [collector |-> [c EXCEPT !.http_requests_active = @ - 1], ended |-> "returned"]
    ELSE [collector |-> RecordCompletion(c, request_id, method, path, status_code,
                                         response_size, error_type, t1, t2),
          ended |-> "returned"]

\* finish_request without the guard: pop() of an unknown id raises KeyError
finish_request_unguarded(c, request_id, method, path, status_code, response_size, error_type, t1, t2) ==
    IF request_id \notin DOMAIN c.active_requests
    THEN [collector |-> c, ended |-> "KeyError"]
    ELSE [collector |-> RecordCompletion(c, request_id, method, path, status_code,
                                         response_size, error_type, t1, t2),
          ended |-> "returned"]

\* finish_request; t1, t2 are its readings of time.time().  The result is the
\* collector afterwards and how the call ended.
finish_request(c, request_id, method, path, status_code, response_size, error_type, t1, t2) ==
    IF request_id \notin DOMAIN c.active_requests
    THEN [collector |-> c, ended |-> "returned"]
    ELSE [collector |-> RecordCompletion(c, request_id, method, path, status_code,
                                         response_size, error_type, t1, t2),
          ended |-> "returned"]

\* calculate_request_rate with ">=" for ">" in the test of the window
calculate_request_rate_inclusive(c, time_window, t) ==
    LET window_start == t - time_window
        requests_in_window == {i \in 1..Len(c.request_history) :
                                  c.request_history[i] >= window_start}
    IN  IF requests_in_window # {} /\ time_window > 0
        THEN [num |-> Cardinality(requests_in_window), den |-> time_window]
        ELSE [num |-> 0, den |-> 1]

\* calculate_request_rate; t is its reading of time.time().  The float it
\* returns is kept as the fraction num / den, 0.0 as 0 / 1.
calculate_request_rate(c, time_window, t) ==
    LET window_start == t - time_window
        requests_in_window == {i \in 1..Len(c.request_history) :
                                  c.request_history[i] > window_start}
    IN  IF requests_in_window # {} /\ time_window > 0
        THEN [num |-> Cardinality(requests_in_window), den |-> time_window]
        ELSE [num |-> 0, den |-> 1]

\* get_error_rate whose result is cut off at 100
get_error_rate_capped(c, time_window, t) ==
    LET rate == calculate_request_rate(c, time_window, t)
        total == [num |-> rate.num * time_window, den |-> rate.den]
        errors == Total(c.http_request_errors_total)
    IN  IF total.num > 0
        THEN IF errors * total.den > total.num
             THEN [num |-> 100, den |-> 1]
             ELSE [num |-> errors * total.den * 100, den |-> total.num]
        ELSE [num |-> 0, den |-> 1]

\* get_error_rate without the test "if total > 0"
get_error_rate_unguarded(c, time_window, t) ==
    LET rate == calculate_request_rate(c, time_window, t)
        total == [num |-> rate.num * time_window, den |-> rate.den]
        errors == Total(c.http_request_errors_total)
    IN  [num |-> errors * total.den * 100, den |-> total.num]

\* get_error_rate; total is calculate_request_rate(time_window) * time_window
\* and the result (errors / total) * 100, both kept as fractions
get_error_rate(c, time_window, t) ==
    LET rate == calculate_request_rate(c, time_window, t)
        total == [num |-> rate.num * time_window, den |-> rate.den]
        errors == Total(c.http_request_errors_total)
    IN  IF total.num > 0
        THEN [num |-> errors * total.den * 100, den |-> total.num]
        ELSE [num |-> 0, den |-> 1]

\* get_metrics_summary; error_rate_percent is errors / max(total, 1) * 100,
\* kept as the pair of its numerator and denominator
get_metrics_summary(c) ==
    LET total_requests == Total(c.http_requests_total)
        error_requests == Total(c.http_request_errors_total)
    IN  [ active_requests         |-> c.http_requests_active,
          total_requests          |-> total_requests,
          error_requests          |-> error_requests,
          request_rate_per_second |-> c.http_request_rate_per_second,
          error_rate_percent      |-> [num |-> error_requests * 100,
                                       den |-> IF total_requests > 1
                                               THEN total_requests ELSE 1] ]

----------------------------------------------------------------------------
(* SystemMetricsCollector *)

\* SystemMetricsCollector.__init__: the gauges collect_metrics writes
NewSystemMetricsCollector ==
    [ app_cpu_seconds_total     |-> 0,
      app_cpu_usage_percent     |-> 0,
      app_memory_resident_bytes |-> 0,
      app_memory_virtual_bytes  |-> 0,
      app_memory_usage_percent  |-> 0,
      app_open_fds              |-> 0,
      app_threads_total         |-> 0,
      app_uptime_seconds        |-> 0,
      start_time                |-> 0 ]

\* the empty dict
EmptyDict == [k \in {} |-> 0]

\* dict.get(key, default)
Get(dict, key, default) == IF key \in DOMAIN dict THEN dict[key] ELSE default

\* the psutil calls of collect_metrics, in the order it makes them (the last
\* is the num_threads() of the return statement)
PsutilCalls == <<"Process", "cpu_times", "cpu_percent", "memory_info",
                 "memory_percent", "num_threads", "num_threads_returned">>

CallIndex(name) == CHOOSE i \in 1..Len(PsutilCalls) : PsutilCalls[i] = name

\* whether the psutil call `name` of a pass returns: sample.fail is the call
\* that raises (psutil.NoSuchProcess or another Exception), "none" if none does
Succeeds(sample, name) ==
    sample.fail = "none" \/ CallIndex(name) < CallIndex(sample.fail)

\* collect_metrics without its except clauses: the exception leaves the method
collect_metrics_without_except(sm, sample, t) ==
    IF sample.fail = "none"
    THEN [ collector |-> [sm EXCEPT !.app_cpu_seconds_total = sample.cpu_total,
                                    !.app_cpu_usage_percent = sample.cpu_percent,
                                    !.app_memory_resident_bytes = sample.rss,
                                    !.app_memory_virtual_bytes = sample.vms,
                                    !.app_memory_usage_percent = sample.memory_percent,
                                    !.app_threads_total = sample.threads,
                                    !.app_uptime_seconds = t - sm.start_time],
           result |-> ("cpu_percent" :> sample.cpu_percent)
                        @@ ("memory_percent" :> sample.memory_percent),
           raised |-> None ]
    ELSE [ collector |-> sm, result |-> EmptyDict, raised |-> Some("Exception") ]

\* collect_metrics whose except clauses return the readings instead of {}
collect_metrics_keeping_readings(sm, sample, t) ==
    LET sm1 == IF Succeeds(sample, "cpu_times")
               THEN [sm EXCEPT !.app_cpu_seconds_total = sample.cpu_total] ELSE sm
        sm2 == IF Succeeds(sample, "cpu_percent")
               THEN [sm1 EXCEPT !.app_cpu_usage_percent = sample.cpu_percent] ELSE sm1
        sm3 == IF Succeeds(sample, "memory_info")
               THEN [sm2 EXCEPT !.app_memory_resident_bytes = sample.rss,
                                !.app_memory_virtual_bytes = sample.vms]
               ELSE sm2
        sm4 == IF Succeeds(sample, "memory_percent")
               THEN [sm3 EXCEPT !.app_memory_usage_percent = sample.memory_percent,
                                !.app_open_fds = IF sample.fds # None
                                                 THEN sample.fds[1] ELSE @]
               ELSE sm3
        sm5 == IF Succeeds(sample, "num_threads")
               THEN [sm4 EXCEPT !.app_threads_total = sample.threads,
                                !.app_uptime_seconds = t - sm.start_time]
               ELSE sm4
    IN  IF sample.fail = "none"
        THEN [ collector |-> sm5,
               result |-> ("cpu_percent" :> sample.cpu_percent)
                            @@ ("memory_percent" :> sample.memory_percent)
                            @@ ("memory_rss" :> sample.rss)
                            @@ ("memory_vms" :> sample.vms)
                            @@ ("threads" :> sample.threads)
                            @@ ("uptime" :> t - sm.start_time)
                            @@ ("cpu_total_seconds" :> sample.cpu_total),
               raised |-> None ]
        ELSE [ collector |-> sm5,
               result |-> ("cpu_percent" :> sample.cpu_percent)
                            @@ ("memory_percent" :> sample.memory_percent),
               raised |-> None ]

\* collect_metrics; sample is what psutil reports, t the reading of
\* time.time().  Both except clauses return {}.  The result is the collector
\* afterwards, the dict returned and the exception that left the method
\* (None: it returned).
collect_metrics(sm, sample, t) ==
    LET sm1 == IF Succeeds(sample, "cpu_times")
               THEN [sm EXCEPT !.app_cpu_seconds_total = sample.cpu_total] ELSE sm
        sm2 == IF Succeeds(sample, "cpu_percent")
               THEN [sm1 EXCEPT !.app_cpu_usage_percent = sample.cpu_percent] ELSE sm1
        sm3 == IF Succeeds(sample, "memory_info")
               THEN [sm2 EXCEPT !.app_memory_resident_bytes = sample.rss,
                                !.app_memory_virtual_bytes = sample.vms]
               ELSE sm2
        sm4 == IF Succeeds(sample, "memory_percent")
               THEN [sm3 EXCEPT !.app_memory_usage_percent = sample.memory_percent,
                                !.app_open_fds = IF sample.fds # None
                                                 THEN sample.fds[1] ELSE @]
               ELSE sm3
        sm5 == IF Succeeds(sample, "num_threads")
               THEN [sm4 EXCEPT !.app_threads_total = sample.threads,
                                !.app_uptime_seconds = t - sm.start_time]
               ELSE sm4
    IN  IF sample.fail = "none"
        THEN [ collector |-> sm5,
               result |-> ("cpu_percent" :> sample.cpu_percent)
                            @@ ("memory_percent" :> sample.memory_percent)
                            @@ ("memory_rss" :> sample.rss)
                            @@ ("memory_vms" :> sample.vms)
                            @@ ("threads" :> sample.threads)
                            @@ ("uptime" :> t - sm.start_time)
                            @@ ("cpu_total_seconds" :> sample.cpu_total),
               raised |-> None ]
        ELSE [ collector |-> sm5, result |-> EmptyDict, raised |-> None ]

\* get_system_summary
get_system_summary(sm, sample, t) == collect_metrics(sm, sample, t)

----------------------------------------------------------------------------
(* MetricsAnalyzer.  A float is kept as the fraction num / den in lowest    *)
(* terms with den > 0, so that the arithmetic on it is exact.               *)

RECURSIVE GCD(_, _)
GCD(a, b) == IF b = 0 THEN a ELSE GCD(b, a % b)

Abs(n) == IF n < 0 THEN 0 - n ELSE n

\* the fraction n / d with d > 0
Frac(n, d) ==
    LET g == GCD(Abs(n), d)
    IN  [num |-> n \div g, den |-> d \div g]

FracOfInt(n) == [num |-> n, den |-> 1]

FracAdd(x, y) == Frac(x.num * y.den + y.num * x.den, x.den * y.den)

FracSub(x, y) == Frac(x.num * y.den - y.num * x.den, x.den * y.den)

FracDivInt(x, n) == Frac(x.num, x.den * n)

FracMulInt(x, n) == Frac(x.num * n, x.den)

\* x >= n and x > n for a fraction x and an integer n
FracGeq(x, n) == x.num >= n * x.den

FracGt(x, n) == x.num > n * x.den

\* round(x, 2) of a fraction x >= 0: the nearest multiple of 1/100, the even
\* one of two equally near
Round2(x) ==
    LET q == (100 * x.num) \div x.den
        r == (100 * x.num) % x.den
    IN  IF 2 * r < x.den THEN Frac(q, 100)
        ELSE IF 2 * r > x.den THEN Frac(q + 1, 100)
        ELSE IF q % 2 = 0 THEN Frac(q, 100)
        ELSE Frac(q + 1, 100)

\* MetricsAnalyzer.__init__
alert_thresholds ==
    [ cpu_percent        |-> 80,
      memory_percent     |-> 85,
      response_time_p95  |-> 2,
      error_rate_percent |-> 5,
      active_requests    |-> 100 ]

\* ComponentScore without "* 100" after the division by the threshold
ComponentScore_no_percent(value, threshold) ==
    LET score == FracSub(FracOfInt(100), FracDivInt(value, threshold))
    IN  IF score.num > 0 THEN score ELSE FracOfInt(0)

\* ComponentScore without max(0, ...)
ComponentScore_unclamped(value, threshold) ==
    FracSub(FracOfInt(100), FracMulInt(FracDivInt(value, threshold), 100))

\* max(0, 100 - (value / threshold) * 100)
ComponentScore(value, threshold) ==
    LET score == FracSub(FracOfInt(100), FracMulInt(FracDivInt(value, threshold), 100))
    IN  IF score.num > 0 THEN score ELSE FracOfInt(0)

\* the status of an overall score
HealthStatus(overall_score) ==
    IF FracGeq(overall_score, 90) THEN "excellent"
    ELSE IF FracGeq(overall_score, 75) THEN "good"
    ELSE IF FracGeq(overall_score, 60) THEN "fair"
    ELSE IF FracGeq(overall_score, 40) THEN "poor"
    ELSE "critical"

\* calculate_system_health_score from the two summaries it gets first
HealthScore(system_summary, http_summary) ==
    LET cpu_percent == Get(system_summary, "cpu_percent", 0)
        memory_percent == Get(system_summary, "memory_percent", 0)
        error_rate == http_summary.error_rate_percent
        active_requests == http_summary.active_requests
        scores ==
            [ cpu        |-> ComponentScore(FracOfInt(cpu_percent),
                                            alert_thresholds.cpu_percent),
              memory     |-> ComponentScore(FracOfInt(memory_percent),
                                            alert_thresholds.memory_percent),
              error_rate |-> ComponentScore(Frac(error_rate.num, error_rate.den),
                                            alert_thresholds.error_rate_percent),
              load       |-> ComponentScore(FracOfInt(active_requests),
                                            alert_thresholds.active_requests) ]
        overall_score ==
            FracDivInt(FracAdd(FracAdd(scores.cpu, scores.memory),
                               FracAdd(scores.error_rate, scores.load)), 4)
    IN  [ overall_score    |-> Round2(overall_score),
          status           |-> HealthStatus(overall_score),
          component_scores |-> scores ]

\* calculate_system_health_score; sample is what psutil reports to the
\* get_system_summary() it calls, t the reading of time.time().  The result is
\* the system collector afterwards and the dict returned (without timestamp).
calculate_system_health_score(sm, c, sample, t) ==
    LET s == get_system_summary(sm, sample, t)
    IN  [ collector |-> s.collector,
          result    |-> HealthScore(s.result, get_metrics_summary(c)) ]

\* ResourceAlerts with "if" for "elif": the warning is also tested when the
\* value is above the threshold
ResourceAlerts_two_ifs(value, threshold, high, warning) ==
    [ active   |-> IF value > threshold
                   THEN << [type |-> high, value |-> value,
                            threshold |-> FracOfInt(threshold)] >>
                   ELSE <<>>,
      warnings |-> IF 10 * value > 8 * threshold
                   THEN << [type |-> warning, value |-> value,
                            threshold |-> Frac(8 * threshold, 10)] >>
                   ELSE <<>> ]

\* the if / elif of get_alert_conditions for cpu and for memory: what it
\* appends to alerts['active'] and to alerts['warnings'] (without the message)
ResourceAlerts(value, threshold, high, warning) ==
    [ active   |-> IF value > threshold
                   THEN << [type |-> high, value |-> value,
                            threshold |-> FracOfInt(threshold)] >>
                   ELSE <<>>,
      warnings |-> IF ~(value > threshold) /\ 10 * value > 8 * threshold
                   THEN << [type |-> warning, value |-> value,
                            threshold |-> Frac(8 * threshold, 10)] >>
                   ELSE <<>> ]

\* get_alert_conditions from the two summaries it gets first
AlertConditions(system_summary, http_summary) ==
    LET cpu_percent == Get(system_summary, "cpu_percent", 0)
        memory_percent == Get(system_summary, "memory_percent", 0)
        error_rate == http_summary.error_rate_percent
        active_requests == http_summary.active_requests
        cpu == ResourceAlerts(cpu_percent, alert_thresholds.cpu_percent,
                              "high_cpu", "cpu_warning")
        memory == ResourceAlerts(memory_percent, alert_thresholds.memory_percent,
                                 "high_memory", "memory_warning")
        errors == IF FracGt(error_rate, alert_thresholds.error_rate_percent)
                  THEN << [type |-> "high_error_rate",
                           value |-> Frac(error_rate.num, error_rate.den),
                           threshold |-> FracOfInt(alert_thresholds.error_rate_percent)] >>
                  ELSE <<>>
        load == IF active_requests > alert_thresholds.active_requests
                THEN << [type |-> "high_load", value |-> active_requests,
                         threshold |-> FracOfInt(alert_thresholds.active_requests)] >>
                ELSE <<>>
    IN  [ alerts |-> [ active   |-> cpu.active \o memory.active \o errors \o load,
                       warnings |-> cpu.warnings \o memory.warnings,
                       info     |-> <<>> ],
          current_values |-> [ cpu_percent        |-> cpu_percent,
                               memory_percent     |-> memory_percent,
                               error_rate_percent |-> Frac(error_rate.num, error_rate.den),
                               active_requests    |-> active_requests ],
          thresholds |-> alert_thresholds ]

\* get_alert_conditions
get_alert_conditions(sm, c, sample, t) ==
    LET s == get_system_summary(sm, sample, t)
    IN  [ collector |-> s.collector,
          result    |-> AlertConditions(s.result, get_metrics_summary(c)) ]

\* the recommendations of the three conditions and the baseline message
RateLimiting == <<"Consider implementing request rate limiting",
                  "Monitor for potential DDoS attacks">>

HighErrors == <<"Investigate high error rate - check application logs",
                "Consider implementing circuit breaker pattern">>

ScaleOut == <<"High traffic with elevated errors - scale horizontally">>

Baseline == <<"System operating within normal parameters">>

\* _generate_recommendations with "elif" for the second and the third "if"
_generate_recommendations_elif(request_rate, error_rate) ==
    LET recommendations ==
            IF FracGt(request_rate, 100) THEN RateLimiting
            ELSE IF FracGt(error_rate, 5) THEN HighErrors
            ELSE IF FracGt(request_rate, 50) /\ FracGt(error_rate, 2) THEN ScaleOut
            ELSE <<>>
    IN  IF recommendations = <<>> THEN Baseline ELSE recommendations

\* _generate_recommendations: three independent "if"s append to the list, and
\* the baseline is appended when the list is empty after them
_generate_recommendations(request_rate, error_rate) ==
    LET r1 == IF FracGt(request_rate, 100) THEN RateLimiting ELSE <<>>
        r2 == IF FracGt(error_rate, 5) THEN r1 \o HighErrors ELSE r1
        r3 == IF FracGt(request_rate, 50) /\ FracGt(error_rate, 2)
              THEN r2 \o ScaleOut ELSE r2
    IN  IF r3 = <<>> THEN Baseline ELSE r3

\* get_performance_trends; t1 and t2 are the readings of time.time() in
\* calculate_request_rate and in get_error_rate
get_performance_trends(c, window_minutes, t1, t2) ==
    LET window_seconds == window_minutes * 60
        request_rate == calculate_request_rate(c, window_seconds, t1)
        error_rate == get_error_rate(c, window_seconds, t2)
    IN  [ window_minutes          |-> window_minutes,
          request_rate_per_second |-> request_rate,
          error_rate_percent      |-> error_rate,
          current_active_requests |-> c.http_requests_active,
          recommendations         |-> _generate_recommendations(request_rate, error_rate) ]

----------------------------------------------------------------------------
(* The detailed health check of app/routers/health.py *)

\* one entry of the issues list: what it is about and the value in its message
Issue(kind, value) == [kind |-> kind, value |-> value]

\* HealthCheckStatus where a high number of active requests escalates the
\* status the way high memory does
HealthCheckStatus_load_escalates(cpu_percent, memory_percent, active_requests) ==
    LET s1 == IF cpu_percent > 80 THEN "warning" ELSE "healthy"
        i1 == IF cpu_percent > 80 THEN <<Issue("High CPU usage", cpu_percent)>> ELSE <<>>
        s2 == IF memory_percent > 85
              THEN (IF s1 = "healthy" THEN "warning" ELSE "critical") ELSE s1
        i2 == IF memory_percent > 85
              THEN Append(i1, Issue("High memory usage", memory_percent)) ELSE i1
        s3 == IF active_requests > 100
              THEN (IF s2 = "healthy" THEN "warning" ELSE "critical") ELSE s2
        i3 == IF active_requests > 100
              THEN Append(i2, Issue("High number of active requests", active_requests))
              ELSE i2
    IN  [status |-> s3, issues |-> i3]

\* the status and the issues detailed_health_check works out: three "if"s in
\* the order cpu, memory, active requests
HealthCheckStatus(cpu_percent, memory_percent, active_requests) ==
    LET s1 == IF cpu_percent > 80 THEN "warning" ELSE "healthy"
        i1 == IF cpu_percent > 80 THEN <<Issue("High CPU usage", cpu_percent)>> ELSE <<>>
        s2 == IF memory_percent > 85
              THEN (IF s1 = "healthy" THEN "warning" ELSE "critical") ELSE s1
        i2 == IF memory_percent > 85
              THEN Append(i1, Issue("High memory usage", memory_percent)) ELSE i1
        s3 == IF active_requests > 100
              THEN (IF s2 = "healthy" THEN "warning" ELSE s2) ELSE s2
        i3 == IF active_requests > 100
              THEN Append(i2, Issue("High number of active requests", active_requests))
              ELSE i2
    IN  [status |-> s3, issues |-> i3]

\* detailed_health_check; sample is what psutil reports to the
\* get_system_summary() it calls, t the reading of time.time().  The result is
\* the system collector afterwards and the status, system, http and issues
\* parts of the dict returned.
detailed_health_check(sm, c, sample, t) ==
    LET s == get_system_summary(sm, sample, t)
        http_summary == get_metrics_summary(c)
        cpu_percent == Get(s.result, "cpu_percent", 0)
        memory_percent == Get(s.result, "memory_percent", 0)
        active_requests == http_summary.active_requests
        checked == HealthCheckStatus(cpu_percent, memory_percent, active_requests)
    IN  [ collector |-> s.collector,
          result |-> [ status |-> checked.status,
                       system |-> [ cpu_percent |-> cpu_percent,
                                    memory_percent |-> memory_percent,
                                    threads |-> Get(s.result, "threads", 0) ],
                       http   |-> [ active_requests |-> active_requests,
                                    total_requests |-> http_summary.total_requests,
                                    error_requests |-> http_summary.error_requests ],
                       issues |-> checked.issues ] ]

----------------------------------------------------------------------------
(* Inputs *)

PathItem == <<"/", "d", "/", "4", "2">>
PathList == <<"/", "d">>
PathDocs == <<"/", "d", "o", "c", "s">>

\* the (method, path) pairs of the requests made
Routes == {<<"GET", PathItem>>, <<"POST", PathList>>}

Sizes == {None, Some(120)}

\* the (status_code, response_size, error_type) triples finish_request is given
Outcomes == { <<200, Some(120), None>>, <<200, None, Some("")>>,
              <<200, None, Some("ValueError")>>, <<404, Some(120), None>>,
              <<404, None, Some("")>>, <<500, None, Some("ValueError")>> }

\* the values time.time() returns: the clock may stand still between two
\* calls, and may jump past the rate window; the readings of one call, which
\* takes microseconds, are enumerated as the same whole second
Times == (0..MaxClock) \cup {MaxClock + RateWindow}

Requests == 1..MaxRequests

----------------------------------------------------------------------------
(* The state after the modules are imported *)

\* metrics_task = None
NoTask == [state |-> "none", cancel_requested |-> FALSE]

\* what the passes of collect_metrics did so far: whether the settings enable
\* the background task, the passes made by the task (all, after its
\* cancellation was requested, after the shutdown completed, failed ones), the
\* last pass of the task, and the passes made by other callers
NoSampling == [enabled |-> FALSE, passes |-> 0, after_cancel |-> 0, after_stop |-> 0,
               failed |-> 0,
               last |-> [failed |-> FALSE, result |-> EmptyDict, raised |-> None],
               others |-> 0]

NoCall == [n |-> 0, op |-> "none", request_id |-> <<>>, known |-> FALSE,
           gauge_before |-> 0, ended |-> "returned", args |-> <<>>]

Init ==
    /\ http_metrics = NewHTTPMetricsCollector
    /\ now = 0
    /\ call = NoCall
    /\ started = NoSeries
    /\ decremented = NoSeries
    /\ appended = <<>>
    /\ finished = {}
    /\ mw = [r \in Requests |-> [pc |-> "idle"]]
    /\ system_metrics = NewSystemMetricsCollector
    /\ lifespan_pc = "startup"
    /\ task = NoTask
    /\ sampler = NoSampling

otherVars == <<mw, system_metrics, lifespan_pc, task, sampler>>

----------------------------------------------------------------------------
(* Calls on the collector *)

\* a caller calls http_metrics.start_request(method, path, request_size)
CallStart(method, path, request_size, t1, t2, t3) ==
    LET r == start_request(http_metrics, method, path, request_size, t1, t2, t3)
    IN  /\ now <= t1 /\ t1 <= t2 /\ t2 <= t3
        /\ http_metrics' = r.collector
        /\ now' = t3
        /\ call' = [n |-> call.n + 1, op |-> "start", request_id |-> r.request_id,
                    known |-> r.request_id \in DOMAIN http_metrics.active_requests,
                    gauge_before |-> http_metrics.http_requests_active,
                    ended |-> "returned",
                    args |-> [method |-> method, path |-> path,
                              request_size |-> request_size]]
        /\ started' = Inc(started, r.request_id)
        /\ appended' = Append(appended, t3)
        /\ UNCHANGED <<decremented, finished>>

\* a caller calls http_metrics.finish_request(request_id, method, path, ...)
CallFinish(request_id, method, path, status_code, response_size, error_type, t1, t2) ==
    LET r == finish_request(http_metrics, request_id, method, path, status_code,
                            response_size, error_type, t1, t2)
        known == request_id \in DOMAIN http_metrics.active_requests
    IN  /\ now <= t1 /\ t1 <= t2
        /\ http_metrics' = r.collector
        /\ now' = IF known THEN t2 ELSE now
        /\ call' = [n |-> call.n + 1, op |-> "finish", request_id |-> request_id,
                    known |-> known,
                    gauge_before |-> http_metrics.http_requests_active,
                    ended |-> r.ended,
                    args |-> [method |-> method, path |-> path,
                              status_code |-> status_code,
                              response_size |-> response_size,
                              error_type |-> error_type]]
        /\ decremented' =
             IF r.collector.http_requests_active < http_metrics.http_requests_active
             THEN Inc(decremented, request_id) ELSE decremented
        /\ finished' =
             IF known
             THEN finished \cup {[method |-> method, path |-> path,
                                  status_code |-> status_code,
                                  error_type |-> error_type]}
             ELSE finished
        /\ UNCHANGED <<started, appended>>

\* the ids a caller may pass to finish_request: every id start_request ever
\* returned (in flight or finished), and ids that may never have been returned
FinishIds == DOMAIN started \cup {RequestId(route[1], route[2], now) : route \in Routes}

Start ==
    /\ call.n < MaxCalls
    /\ \E route \in Routes, request_size \in Sizes, t \in Times :
          CallStart(route[1], route[2], request_size, t, t, t)
    /\ UNCHANGED otherVars

Finish ==
    /\ call.n < MaxCalls
    /\ \E request_id \in FinishIds, outcome \in Outcomes, t \in Times :
          \* the caller passes the method and path it started the request with
          CallFinish(request_id, request_id[1], request_id[2], outcome[1],
                     outcome[2], outcome[3], t, t)
    /\ UNCHANGED otherVars

Next == Start \/ Finish

Spec == Init /\ [][Next]_vars

----------------------------------------------------------------------------
(* Claims about start_request and finish_request, under Spec *)

\* the step is the call of finish_request recorded in call'
FinishStep == call'.op = "finish" /\ call'.n = call.n + 1

\* the value of a series, 0 when labels() was never called for it
Series(metric, labels) == IF labels \in DOMAIN metric THEN metric[labels] ELSE 0

\* C1: a start_request directly followed by finish_request with the returned id
\* leaves the active-requests gauge at its value before the start; a second
\* finish_request with the same id right after the first changes nothing; and
\* the gauge is decremented at most once per start of a request id.
C1_GaugeRestored ==
    [][ /\ ( /\ FinishStep
             /\ call.op = "start"
             /\ call'.request_id = call.request_id )
           => http_metrics'.http_requests_active = call.gauge_before
        /\ ( /\ FinishStep
             /\ call.op = "finish"
             /\ call'.request_id = call.request_id )
           => http_metrics' = http_metrics
        /\ \A id \in DOMAIN decremented' :
             id \in DOMAIN started' /\ decremented'[id] <= started'[id]
      ]_vars

\* start, finish, and the same finish again: one decrement, gauge back at 0
C1_Witness ==
    /\ call.n = 3
    /\ call.op = "finish"
    /\ ~call.known
    /\ call.request_id \in DOMAIN decremented
    /\ decremented[call.request_id] = 1
    /\ http_metrics.http_requests_active = 0

\* C2: finish_request with an id that is not in flight returns without raising
\* and leaves the whole collector unchanged (in-flight map, history, gauges,
\* counters and histograms).
C2_UnknownIdNoop ==
    [][ (FinishStep /\ ~call'.known)
           => (http_metrics' = http_metrics /\ call'.ended = "returned") ]_vars

\* a finish with an id not in flight, made while another request is in flight
C2_Witness ==
    /\ call.op = "finish"
    /\ ~call.known
    /\ DOMAIN http_metrics.active_requests # {}
    /\ Len(http_metrics.request_history) > 0

\* C3: start_request returns an id different from every id in flight, so it
\* never overwrites an in-flight entry.
C3_FreshId == call.op = "start" => ~call.known

\* C9: finish_request of a request in flight adds exactly 1 to the error
\* counter if a non-empty error_type is given or status_code >= 400, on the
\* series (method, normalized endpoint, error label, str(status_code)) whose
\* error label is the non-empty error_type, else the category of the status;
\* otherwise it leaves every error series unchanged.
C9_ErrorCounted ==
    [][ (FinishStep /\ call'.known) =>
          LET a == call'.args
              given == a.error_type # None /\ a.error_type[1] # ""
              label == IF given THEN a.error_type[1]
                       ELSE _classify_error_by_status(a.status_code)
              series == <<a.method, _normalize_endpoint(a.path), label, Str(a.status_code)>>
              before == http_metrics.http_request_errors_total
              after == http_metrics'.http_request_errors_total
          IN  IF given \/ a.status_code >= 400
              THEN /\ Total(after) = Total(before) + 1
                   /\ Series(after, series) = Series(before, series) + 1
                   /\ \A l \in DOMAIN before : l # series => Series(after, l) = before[l]
              ELSE after = before
      ]_vars

\* the scenario of the specification: POST, status 500, error_type "ValueError"
C9_Witness ==
    /\ call.op = "finish"
    /\ call.known
    /\ call.args.status_code = 500
    /\ call.args.error_type = Some("ValueError")
    /\ Series(http_metrics.http_request_errors_total,
              <<"POST", PathList, "ValueError", <<"5", "0", "0">> >>) = 1
    /\ Series(http_metrics.http_requests_by_status, <<"5xx", "POST">>) = 1

\* C9 as stated: the error counter is incremented whenever an error_type is
\* supplied (any value but None), on the series labelled with it.
C9_AsStated ==
    [][ (FinishStep /\ call'.known) =>
          LET a == call'.args
              supplied == a.error_type # None
              before == http_metrics.http_request_errors_total
              after == http_metrics'.http_request_errors_total
          IN  IF supplied \/ a.status_code >= 400
              THEN Total(after) = Total(before) + 1
              ELSE after = before
      ]_vars

\* C10: finish_request of a request in flight with status_code < 400 and no
\* error_type (None or empty) adds exactly 1 to the summary's total_requests, on
\* the one series (method, normalized endpoint, str(status_code)), removes the
\* in-flight entry and leaves the total error count unchanged.
C10_SuccessCounted ==
    [][ ( /\ FinishStep
          /\ call'.known
          /\ call'.args.status_code < 400
          /\ ~Truthy(call'.args.error_type) ) =>
          LET a == call'.args
              series == <<a.method, _normalize_endpoint(a.path), Str(a.status_code)>>
              before == http_metrics.http_requests_total
              after == http_metrics'.http_requests_total
          IN  /\ get_metrics_summary(http_metrics').total_requests
                   = get_metrics_summary(http_metrics).total_requests + 1
              /\ Series(after, series) = Series(before, series) + 1
              /\ \A l \in DOMAIN after : l # series => (l \in DOMAIN before /\ after[l] = before[l])
              /\ call'.request_id \notin DOMAIN http_metrics'.active_requests
              /\ get_metrics_summary(http_metrics').error_requests
                   = get_metrics_summary(http_metrics).error_requests
      ]_vars

\* the scenario of the specification: GET of an item path, 200, 120 bytes
C10_Witness ==
    /\ call.n = 2
    /\ call.op = "finish"
    /\ call.known
    /\ call.args.status_code = 200
    /\ call.args.response_size = Some(120)
    /\ call.args.error_type = None
    /\ http_metrics.http_requests_total =
          (<<"GET", <<"/", "d", "/", "{", "i", "d", "}">>, <<"2", "0", "0">> >> :> 1)
    /\ get_metrics_summary(http_metrics).active_requests = 0
    /\ get_metrics_summary(http_metrics).error_requests = 0

----------------------------------------------------------------------------
(* MetricsMiddleware *)

\* exclude_paths=[settings.metrics_path, "/docs", "/redoc", "/openapi.json"]
exclude_paths ==
    { <<"/", "m", "e", "t", "r", "i", "c", "s">>,
      PathDocs,
      <<"/", "r", "e", "d", "o", "c">>,
      <<"/", "o", "p", "e", "n", "a", "p", "i", ".", "j", "s", "o", "n">> }

DigitValue(ch) ==
    CASE ch = "0" -> 0 [] ch = "1" -> 1 [] ch = "2" -> 2 [] ch = "3" -> 3
      [] ch = "4" -> 4 [] ch = "5" -> 5 [] ch = "6" -> 6 [] ch = "7" -> 7
      [] ch = "8" -> 8 [] ch = "9" -> 9

RECURSIVE DigitsValue(_)
DigitsValue(s) ==
    IF s = <<>> THEN 0
    ELSE 10 * DigitsValue(SubSeq(s, 1, Len(s) - 1)) + DigitValue(s[Len(s)])

\* the size read from a content-length header: None when the header is absent
\* or empty, and when int() raises ValueError
SizeFromHeader(content_length) ==
    IF content_length = None \/ content_length[1] = <<>> THEN None
    ELSE IF IsDecimal(content_length[1]) THEN Some(DigitsValue(content_length[1]))
    ELSE None

\* the response size dispatch works out from a response
ResponseSize(response) ==
    LET from_header ==
            IF response.content_length # None /\ response.content_length[1] # <<>>
            THEN SizeFromHeader(response.content_length)
            ELSE IF response.body # None THEN Some(Len(response.body[1]))
            ELSE None
    IN  IF response.streaming THEN None ELSE from_header

\* what leaves "await call_next(request)" when the handler does not return:
\* the class name of the exception, None when it returns a response
Thrown(result) ==
    CASE result.kind = "exception" -> Some(result.name)
      [] result.kind = "cancelled" -> Some("CancelledError")
      [] result.kind = "response"  -> None

\* dispatch_exit without "error_type = type(e).__name__" in the except block
dispatch_exit_unclassified(result) ==
    LET status_code == IF result.kind = "response" THEN result.response.status_code
                       ELSE 500
        response_size == IF result.kind = "response"
                         THEN ResponseSize(result.response) ELSE None
    IN  [ ended  |-> IF result.kind = "response" THEN "returned" ELSE "raised",
          raised |-> Thrown(result),
          finish |-> << [status_code |-> status_code,
                         response_size |-> response_size,
                         error_type |-> None] >> ]

\* dispatch_exit with finish_request called at the end of the try block and in
\* the except block, not in a finally block
dispatch_exit_without_finally(result) ==
    LET status_code == IF result.kind = "response" THEN result.response.status_code
                       ELSE 500
        response_size == IF result.kind = "response"
                         THEN ResponseSize(result.response) ELSE None
        error_type == IF result.kind = "exception" THEN Some(result.name) ELSE None
    IN  [ ended  |-> IF result.kind = "response" THEN "returned" ELSE "raised",
          raised |-> Thrown(result),
          finish |-> IF result.kind = "cancelled" THEN <<>>
                     ELSE << [status_code |-> status_code,
                              response_size |-> response_size,
                              error_type |-> error_type] >> ]

\* The exit of dispatch from "await call_next(request)": what the handler did
\* is result.kind, "response", "exception" (an Exception, result.name its class)
\* or "cancelled" (asyncio.CancelledError, a BaseException).  Gives how dispatch
\* ends, the exception that leaves it ("raise" re-raises the one caught, and
\* one that is not caught passes through the finally block), and the
\* finish_request calls it makes on the way out, in order.
dispatch_exit(result) ==
    LET status_code == IF result.kind = "response" THEN result.response.status_code
                       ELSE 500
        response_size == IF result.kind = "response"
                         THEN ResponseSize(result.response) ELSE None
        error_type == IF result.kind = "exception" THEN Some(result.name) ELSE None
    IN  [ ended  |-> IF result.kind = "response" THEN "returned" ELSE "raised",
          raised |-> Thrown(result),
          finish |-> << [status_code |-> status_code,
                         response_size |-> response_size,
                         error_type |-> error_type] >> ]

\* the collector after the finish_request calls of one exit of dispatch
RECURSIVE ApplyFinishes(_, _, _, _, _, _)
ApplyFinishes(c, request_id, method, path, finishes, t) ==
    IF finishes = <<>> THEN c
    ELSE ApplyFinishes(
           finish_request(c, request_id, method, path, Head(finishes).status_code,
                          Head(finishes).response_size, Head(finishes).error_type,
                          t, t).collector,
           request_id, method, path, Tail(finishes), t)

\* the requests the middleware is given: method, path, content-length header
Incoming ==
    { <<"GET", PathItem, None>>, <<"POST", PathList, Some(<<"1", "2", "0">>)>>,
      <<"GET", PathDocs, Some(<<"x">>)>> }

Responses ==
    { [status_code |-> 200, content_length |-> Some(<<"1", "2", "0">>),
       body |-> None, streaming |-> FALSE],
      [status_code |-> 500, content_length |-> None,
       body |-> Some(<<"n", "o">>), streaming |-> FALSE],
      [status_code |-> 404, content_length |-> Some(<<"x">>),
       body |-> None, streaming |-> TRUE] }

Results ==
    {[kind |-> "response", response |-> rsp] : rsp \in Responses}
      \cup {[kind |-> "exception", name |-> "ValueError"], [kind |-> "cancelled"]}

\* dispatch up to "await call_next(request)"; the requests are numbered in
\* the order in which they arrive
DispatchBegin(r) ==
    /\ mw[r].pc = "idle"
    /\ \A q \in Requests : q < r => mw[q].pc # "idle"
    /\ \E route \in Incoming, t \in Times :
          IF route[2] \in exclude_paths
          THEN /\ mw' = [mw EXCEPT ![r] = [pc |-> "passing"]]
               /\ UNCHANGED <<http_metrics, now>>
          ELSE LET s == start_request(http_metrics, route[1], route[2],
                                      SizeFromHeader(route[3]), t, t, t)
               IN  /\ now <= t
                   /\ http_metrics' = s.collector
                   /\ now' = t
                   /\ mw' = [mw EXCEPT ![r] =
                               [pc |-> "awaiting", method |-> route[1],
                                path |-> route[2], request_id |-> s.request_id,
                                finish_calls |-> <<>>, result |-> "", ended |-> "",
                                thrown |-> None, returned |-> None,
                                raised |-> None]]
    /\ UNCHANGED <<call, started, decremented, appended, finished,
                   system_metrics, lifespan_pc, task, sampler>>

\* dispatch from the end of "await call_next(request)" to its own end
DispatchEnd(r) ==
    /\ mw[r].pc = "awaiting"
    /\ \E result \in Results, t \in Times :
          LET x == dispatch_exit(result)
          IN  /\ now <= t
              /\ http_metrics' = ApplyFinishes(http_metrics, mw[r].request_id,
                                               mw[r].method, mw[r].path, x.finish, t)
              /\ now' = IF x.finish = <<>> THEN now ELSE t
              /\ mw' = [mw EXCEPT ![r].pc = "done",
                                  ![r].finish_calls = x.finish,
                                  ![r].result = result.kind,
                                  ![r].ended = x.ended,
                                  ![r].thrown = Thrown(result),
                                  ![r].returned =
                                      IF result.kind = "response"
                                      THEN Some(result.response.status_code)
                                      ELSE None,
                                  ![r].raised = x.raised]
    /\ UNCHANGED <<call, started, decremented, appended, finished,
                   system_metrics, lifespan_pc, task, sampler>>

\* dispatch of a request on an excluded path: "return await call_next(request)"
DispatchPass(r) ==
    /\ mw[r].pc = "passing"
    /\ mw' = [mw EXCEPT ![r] = [pc |-> "passed"]]
    /\ UNCHANGED <<http_metrics, now, call, started, decremented, appended, finished,
                   system_metrics, lifespan_pc, task, sampler>>

NextMiddleware ==
    \E r \in Requests : DispatchBegin(r) \/ DispatchEnd(r) \/ DispatchPass(r)

SpecMiddleware == Init /\ [][NextMiddleware]_vars

----------------------------------------------------------------------------
(* Claims about the middleware, under SpecMiddleware *)

\* C4: for a request on a path that is not excluded, dispatch calls
\* finish_request exactly once for the id its start_request returned, on every
\* way out (the handler returned a response, raised, or was cancelled), and not
\* before the handler is done.
C4_FinishOncePerStart ==
    \A r \in Requests :
       /\ mw[r].pc = "awaiting" => mw[r].finish_calls = <<>>
       /\ mw[r].pc = "done" =>
             /\ mw[r].result \in {"response", "exception", "cancelled"}
             /\ Len(mw[r].finish_calls) = 1

\* a request whose handler was cancelled, finished once
C4_Witness ==
    \E r \in Requests :
       /\ mw[r].pc = "done"
       /\ mw[r].result = "cancelled"
       /\ Len(mw[r].finish_calls) = 1

\* the one finish_request call of a finished dispatch
FinishCall(r) == mw[r].finish_calls[1]

\* C27: when the handler raises an Exception, dispatch finishes the request
\* with status code 500 and the class name of the exception as error_type and
\* raises that exception; when a BaseException that is no Exception leaves the
\* handler (asyncio.CancelledError), dispatch finishes the request with status
\* code 500 and no error_type and the exception leaves dispatch; so a finish
\* with status code 500 and no error_type happens only when the handler
\* returned a response with status 500 or was left by such a BaseException.
C27_ExceptionFinish ==
    \A r \in Requests :
       (mw[r].pc = "done" /\ Len(mw[r].finish_calls) = 1) =>
          /\ mw[r].result = "exception" =>
                /\ FinishCall(r).status_code = 500
                /\ FinishCall(r).error_type = mw[r].thrown
                /\ mw[r].thrown # None
                /\ mw[r].ended = "raised" /\ mw[r].raised = mw[r].thrown
          /\ mw[r].result = "cancelled" =>
                /\ FinishCall(r).status_code = 500
                /\ FinishCall(r).error_type = None
                /\ mw[r].ended = "raised" /\ mw[r].raised = Some("CancelledError")
          /\ (FinishCall(r).status_code = 500 /\ FinishCall(r).error_type = None) =>
                \/ mw[r].returned = Some(500)
                \/ mw[r].result = "cancelled"

\* C27: one request whose handler raised ValueError and one whose handler
\* was cancelled, both finished
C27_Witness ==
    \E r1, r2 \in Requests :
       /\ mw[r1].pc = "done" /\ mw[r1].result = "exception"
       /\ mw[r1].finish_calls =
             << [status_code |-> 500, response_size |-> None,
                 error_type |-> Some("ValueError")] >>
       /\ mw[r1].raised = Some("ValueError")
       /\ mw[r2].pc = "done" /\ mw[r2].result = "cancelled"
       /\ mw[r2].finish_calls =
             << [status_code |-> 500, response_size |-> None, error_type |-> None] >>

\* C27 as stated: a handler that raises gives a finish with status code 500
\* and the class name as error_type and the same exception raised, and a finish
\* with status code 500 and no error_type happens only when the handler
\* returned a response with status 500
C27_AsStated ==
    \A r \in Requests :
       (mw[r].pc = "done" /\ Len(mw[r].finish_calls) = 1) =>
          /\ mw[r].result = "exception" =>
                /\ FinishCall(r).status_code = 500
                /\ FinishCall(r).error_type = mw[r].thrown
                /\ mw[r].raised = mw[r].thrown
          /\ (FinishCall(r).status_code = 500 /\ FinishCall(r).error_type = None) =>
                mw[r].returned = Some(500)

\* C6: when N requests handled concurrently have all been started once and
\* finished once, the in-flight map is empty, the active-requests gauge is back
\* at its initial value and the total-requests counter has grown by N.
C6_NoLostUpdate ==
    (\A r \in Requests : mw[r].pc = "done") =>
       /\ DOMAIN http_metrics.active_requests = {}
       /\ http_metrics.http_requests_active = 0
       /\ Total(http_metrics.http_requests_total) = Cardinality(Requests)

----------------------------------------------------------------------------
(* The lifespan of the application and the background sampler of app/main.py *)

\* what psutil reports in one pass of collect_metrics
Samples ==
    { [fail |-> "none", cpu_total |-> 1, cpu_percent |-> 10, rss |-> 100, vms |-> 200,
       memory_percent |-> 20, fds |-> Some(8), threads |-> 4],
      [fail |-> "none", cpu_total |-> 2, cpu_percent |-> 85, rss |-> 300, vms |-> 400,
       memory_percent |-> 90, fds |-> None, threads |-> 5],
      [fail |-> "Process", cpu_total |-> 3, cpu_percent |-> 10, rss |-> 100, vms |-> 200,
       memory_percent |-> 20, fds |-> None, threads |-> 4],
      [fail |-> "memory_info", cpu_total |-> 3, cpu_percent |-> 50, rss |-> 100,
       vms |-> 200, memory_percent |-> 20, fds |-> None, threads |-> 4] }

\* collect_system_metrics whose loop catches the CancelledError and goes on
collect_system_metrics_swallowing_cancel(cancel_requested) == "pass"

\* What the coroutine collect_system_metrics does when the event loop resumes
\* it, at its start or at "await asyncio.sleep(...)": with a cancellation
\* requested, CancelledError is thrown there, outside the try block, and ends
\* the task; otherwise the loop body runs one pass and sleeps again.
collect_system_metrics_resumed(cancel_requested) ==
    IF cancel_requested THEN "cancelled" ELSE "pass"

\* What one iteration of the loop makes of a pass: an Exception out of
\* collect_metrics is caught and printed, and the loop goes on to sleep.
collect_system_metrics_after_pass(raised) == "sleeping"

\* lifespan up to "yield": creates the task if the settings enable it, then
\* makes the initial pass itself
LifespanStartup ==
    /\ lifespan_pc = "startup"
    /\ \E enabled \in BOOLEAN, sample \in Samples :
          LET r == collect_metrics(system_metrics, sample, now)
          IN  /\ task' = IF enabled THEN [state |-> "created", cancel_requested |-> FALSE]
                         ELSE NoTask
              /\ system_metrics' = r.collector
              /\ sampler' = [sampler EXCEPT !.enabled = enabled, !.others = @ + 1]
    /\ lifespan_pc' = "running"
    /\ UNCHANGED <<http_metrics, now, call, started, decremented, appended, finished, mw>>

\* the event loop resumes the background task
SamplerResume ==
    /\ task.state \in {"created", "sleeping"}
    /\ IF collect_system_metrics_resumed(task.cancel_requested) = "cancelled"
       THEN /\ task' = [task EXCEPT !.state = "cancelled"]
            /\ UNCHANGED <<system_metrics, sampler, now>>
       ELSE /\ sampler.passes < MaxTicks
            /\ \E sample \in Samples, t \in Times :
                  LET r == collect_metrics(system_metrics, sample, t)
                  IN  /\ now <= t
                      /\ now' = t
                      /\ system_metrics' = r.collector
                      /\ task' = [task EXCEPT !.state =
                                    collect_system_metrics_after_pass(r.raised)]
                      /\ sampler' = [sampler EXCEPT
                            !.passes = @ + 1,
                            !.after_cancel = IF task.cancel_requested THEN @ + 1 ELSE @,
                            !.after_stop = IF lifespan_pc = "stopped" THEN @ + 1 ELSE @,
                            !.failed = IF sample.fail # "none" THEN @ + 1 ELSE @,
                            !.last = [failed |-> sample.fail # "none",
                                      result |-> r.result, raised |-> r.raised]]
    /\ UNCHANGED <<http_metrics, call, started, decremented, appended, finished, mw, lifespan_pc>>

\* What lifespan does after "yield": with the task enabled and created it
\* cancels the task and awaits it ("awaiting_task"), otherwise it is done.
lifespan_shutdown(enabled, task_state) ==
    IF enabled /\ task_state # "none"
    THEN [cancel |-> TRUE, pc |-> "awaiting_task"]
    ELSE [cancel |-> FALSE, pc |-> "stopped"]

\* lifespan after "yield", up to "await metrics_task"
LifespanShutdown ==
    /\ lifespan_pc = "running"
    /\ LET x == lifespan_shutdown(sampler.enabled, task.state)
       IN  /\ task' = [task EXCEPT !.cancel_requested = x.cancel]
           /\ lifespan_pc' = x.pc
    /\ UNCHANGED <<http_metrics, now, call, started, decremented, appended, finished, mw,
                   system_metrics, sampler>>

\* "await metrics_task" returns (CancelledError is caught): lifespan is done
LifespanJoin ==
    /\ lifespan_pc = "awaiting_task"
    /\ task.state = "cancelled"
    /\ lifespan_pc' = "stopped"
    /\ UNCHANGED <<http_metrics, now, call, started, decremented, appended, finished, mw,
                   system_metrics, task, sampler>>

\* a health or analysis endpoint calls system_metrics.get_system_summary(),
\* while the clock stands at its last reading
SystemSummary ==
    /\ lifespan_pc = "running"
    /\ sampler.others < MaxTicks
    /\ \E sample \in Samples :
          /\ system_metrics' = get_system_summary(system_metrics, sample, now).collector
          /\ sampler' = [sampler EXCEPT !.others = @ + 1]
    /\ UNCHANGED <<http_metrics, now, call, started, decremented, appended, finished, mw,
                   lifespan_pc, task>>

NextLifespan ==
    LifespanStartup \/ SamplerResume \/ LifespanShutdown \/ LifespanJoin \/ SystemSummary

\* the event loop runs every task that is ready to run
SpecLifespan ==
    Init /\ [][NextLifespan]_vars /\ WF_vars(SamplerResume) /\ WF_vars(LifespanJoin)

----------------------------------------------------------------------------
(* Claims about the background sampler, under SpecLifespan *)

\* C7: at shutdown with system metrics enabled the background task is told to
\* stop, makes at most one more collection pass and then ends; the shutdown
\* waits for the task to end, and the task makes no pass after the shutdown
\* has completed.
C7_GracefulShutdown ==
    /\ [](/\ sampler.after_cancel <= 1
          /\ sampler.after_stop = 0
          /\ (lifespan_pc = "awaiting_task" => task.cancel_requested)
          /\ (lifespan_pc = "stopped" /\ sampler.enabled) => task.state = "cancelled")
    /\ (task.cancel_requested ~> task.state = "cancelled")
    /\ (lifespan_pc = "awaiting_task" ~> lifespan_pc = "stopped")

\* the shutdown has completed after the task made passes
C7_Witness ==
    /\ lifespan_pc = "stopped"
    /\ sampler.enabled
    /\ task.cancel_requested
    /\ task.state = "cancelled"
    /\ sampler.passes >= 2

\* C8: a collection pass that fails returns an empty result and does not
\* raise, and does not end the background task: the task sleeps and, unless it
\* is cancelled, makes its next pass.
C8_FailedPassTolerated ==
    /\ [](sampler.last.failed =>
            /\ sampler.last.result = EmptyDict
            /\ sampler.last.raised = None
            /\ \/ task.state = "sleeping"
               \/ task.state = "cancelled" /\ task.cancel_requested)
    /\ \A k \in 1..(MaxTicks - 1) :
          (sampler.passes = k /\ sampler.last.failed)
             ~> (sampler.passes = k + 1 \/ task.cancel_requested)

\* the task made a pass that succeeded after a pass that failed
C8_Witness ==
    /\ sampler.failed >= 1
    /\ sampler.passes > sampler.failed
    /\ ~sampler.last.failed
    /\ sampler.last.result # EmptyDict
    /\ task.state = "sleeping"

----------------------------------------------------------------------------
(* The request history under a long run of starts *)

\* start_request, each call at a later clock value than the one before
HistoryStart ==
    /\ Len(appended) < HistoryLimit + ExtraStarts
    /\ \E route \in {<<"GET", PathList>>} :
          CallStart(route[1], route[2], None, now + 1, now + 1, now + 1)
    /\ UNCHANGED otherVars

SpecHistory == Init /\ [][HistoryStart]_vars

\* the last n elements of a sequence
LastN(seq, n) == SubSeq(seq, Len(seq) - n + 1, Len(seq))

\* C5: after any number of start_request calls the history holds at most 1000
\* timestamps, and they are the most recently appended ones in the order of
\* their insertion: a start that overflows the bound removes the oldest entry.
C5_HistoryBounded ==
    /\ Len(http_metrics.request_history) <= HistoryLimit
    /\ Len(http_metrics.request_history) =
          (IF Len(appended) < HistoryLimit THEN Len(appended) ELSE HistoryLimit)
    /\ http_metrics.request_history =
          LastN(appended, Len(http_metrics.request_history))

\* more starts than the history holds: the oldest timestamps are gone
C5_Witness ==
    /\ Len(appended) = HistoryLimit + ExtraStarts
    /\ Len(http_metrics.request_history) = HistoryLimit
    /\ \A i \in 1..ExtraStarts :
          \A j \in 1..HistoryLimit : http_metrics.request_history[j] # appended[i]
    /\ http_metrics.request_history[1] = appended[ExtraStarts + 1]

----------------------------------------------------------------------------
(* The helper functions of the collector, called on their own *)

\* the status codes the classification is given
StatusCodes == (0 - 1)..MaxStatusCode

\* the characters of the paths the normalization is given
PathChars == {"/", "7", "a", "?", "{", "}", "²"}

\* the paths of up to MaxPathLen characters
Paths == UNION {[1..k -> PathChars] : k \in 0..MaxPathLen}

\* a caller calls _get_status_class and _classify_error_by_status; the two
\* read nothing but their argument, so a behaviour makes one call
Classify ==
    /\ call.op = "none"
    /\ \E status_code \in StatusCodes :
          call' = [n |-> call.n, op |-> "classify",
                   args |-> [status_code |-> status_code],
                   result |-> [status_class |-> _get_status_class(status_code),
                               error |-> _classify_error_by_status(status_code)]]
    /\ UNCHANGED <<http_metrics, now, started, decremented, appended, finished>>
    /\ UNCHANGED otherVars

\* a caller calls _normalize_endpoint, which reads nothing but its argument
Normalize ==
    /\ call.op = "none"
    /\ \E path \in Paths :
          call' = [n |-> call.n, op |-> "normalize",
                   args |-> [path |-> path],
                   result |-> _normalize_endpoint(path)]
    /\ UNCHANGED <<http_metrics, now, started, decremented, appended, finished>>
    /\ UNCHANGED otherVars

NextFunctions == Classify \/ Normalize

SpecFunctions == Init /\ [][NextFunctions]_vars

\* the categories of the status codes that have one of their own
ErrorTable ==
    (400 :> "bad_request") @@ (401 :> "unauthorized") @@ (403 :> "forbidden")
      @@ (404 :> "not_found") @@ (405 :> "method_not_allowed")
      @@ (422 :> "validation_error") @@ (429 :> "rate_limited")
      @@ (500 :> "internal_server_error") @@ (502 :> "bad_gateway")
      @@ (503 :> "service_unavailable")

\* C11: the status class of a code is "1xx".."5xx" by its hundreds for the
\* codes 100 to 599 and "unknown" for every other code; the error category
\* is the one of the table for the codes it lists, "client_error" for the
\* other codes 400 to 499, "server_error" for the other codes 500 to 599 and
\* "unknown_error" for every code outside 400 to 599.
C11_Classification ==
    call.op = "classify" =>
       LET c == call.args.status_code
           hundreds == c \div 100
       IN  /\ call.result.status_class =
                 (IF c >= 100 /\ c <= 599
                  THEN CASE hundreds = 1 -> "1xx" [] hundreds = 2 -> "2xx"
                         [] hundreds = 3 -> "3xx" [] hundreds = 4 -> "4xx"
                         [] hundreds = 5 -> "5xx"
                  ELSE "unknown")
           /\ call.result.error =
                 (IF c \in DOMAIN ErrorTable THEN ErrorTable[c]
                  ELSE IF hundreds = 4 THEN "client_error"
                  ELSE IF hundreds = 5 THEN "server_error"
                  ELSE "unknown_error")

\* a code past the last range: "unknown" and "unknown_error"
C11_Witness ==
    /\ call.op = "classify"
    /\ call.args.status_code = 600
    /\ call.result = [status_class |-> "unknown", error |-> "unknown_error"]

\* C12: normalizing a normalized path gives the same path again.
C12_Idempotent ==
    call.op = "normalize" => _normalize_endpoint(call.result) = call.result

\* a path with a query and a numeric segment, which the first pass changes
C12_Witness ==
    /\ call.op = "normalize"
    /\ call.args.path = <<"/", "7", "?", "7">>
    /\ call.result = <<"/", "{", "i", "d", "}">>

\* the text of a path before its first "?", the whole path if it has none
WithoutQuery(path) ==
    IF \E i \in 1..Len(path) : path[i] = "?"
    THEN SubSeq(path, 1, (CHOOSE i \in 1..Len(path) :
                             path[i] = "?" /\ \A j \in 1..(i - 1) : path[j] # "?") - 1)
    ELSE path

\* a segment made only of decimal digits
DecimalSegment(seg) == Len(seg) > 0 /\ \A i \in 1..Len(seg) : seg[i] \in Digits

\* C13: the normalized path is the path without its query whose "/"-separated
\* segments made only of decimal digits are replaced by {id}, every other
\* segment (empty ones and ones in braces too) staying as it is and where it
\* is; without such a segment it is the path without its query.
C13_Normalized ==
    call.op = "normalize" =>
       LET segs == Split(WithoutQuery(call.args.path), "/")
           out == Split(call.result, "/")
       IN  /\ Len(out) = Len(segs)
           /\ \A i \in 1..Len(segs) :
                 out[i] = IF DecimalSegment(segs[i]) THEN IdPlaceholder ELSE segs[i]
           /\ (\A i \in 1..Len(segs) : ~DecimalSegment(segs[i]))
                 => call.result = WithoutQuery(call.args.path)

----------------------------------------------------------------------------
(* The label sets of the per-request metrics *)

PathOther == <<"/", "d", "/", "7">>

\* requests for two items of one collection
LabelRoutes == {<<"GET", PathItem>>, <<"GET", PathOther>>}

\* the (status_code, response_size, error_type) triples of their completions
LabelOutcomes == { <<200, Some(120), None>>, <<201, Some(120), None>>,
                   <<404, None, None>>, <<200, None, Some("ValueError")>>,
                   <<200, None, Some("KeyError")>> }

LabelStart ==
    /\ call.n < MaxLabelCalls
    /\ \E route \in LabelRoutes, t \in 0..MaxClock :
          CallStart(route[1], route[2], Some(120), t, t, t)
    /\ UNCHANGED otherVars

LabelFinish ==
    /\ call.n < MaxLabelCalls
    /\ \E request_id \in DOMAIN started, outcome \in LabelOutcomes, t \in Times :
          CallFinish(request_id, request_id[1], request_id[2], outcome[1],
                     outcome[2], outcome[3], t, t)
    /\ UNCHANGED otherVars

NextLabels == LabelStart \/ LabelFinish

SpecLabels == Init /\ [][NextLabels]_vars

\* the number of label sets (time series) of a metric
SeriesCount(metric) == Cardinality(DOMAIN metric)

\* the error label of a finished request that was given an error type
GivenError(f) ==
    IF f.error_type # None /\ f.error_type[1] # "" THEN f.error_type[1] ELSE "none"

\* the (method, normalized endpoint, status code, error type) tuples of the
\* requests finished so far
FinishedTuples ==
    { <<f.method, _normalize_endpoint(f.path), f.status_code, GivenError(f)>> :
         f \in finished }

\* the (method, normalized endpoint) pairs of the requests started so far
StartedPairs == { <<id[1], _normalize_endpoint(id[2])>> : id \in DOMAIN started }

\* the metrics finish_request writes
FinishMetrics ==
    { "http_requests_total", "http_request_duration_seconds",
      "http_response_size_bytes", "http_request_errors_total",
      "http_requests_by_status", "http_slow_requests_total" }

\* C14: the metrics finish_request writes have each at most as many label
\* sets as there are distinct (method, normalized endpoint, status code, error
\* type) tuples among the requests finished so far, and the request-size
\* histogram, which start_request writes, at most as many as there are
\* distinct (method, normalized endpoint) pairs among the requests started.
C14_LabelSetsBounded ==
    /\ \A name \in FinishMetrics :
          SeriesCount(http_metrics[name]) <= Cardinality(FinishedTuples)
    /\ SeriesCount(http_metrics.http_request_size_bytes) <= Cardinality(StartedPairs)

\* two requests for different items, finished alike, are counted on one series
C14_Witness ==
    /\ \E f, g \in finished :
          /\ f.path = PathItem /\ g.path = PathOther
          /\ f.status_code = 200 /\ g.status_code = 200
          /\ f.error_type = None /\ g.error_type = None
    /\ Cardinality(finished) = 2
    /\ SeriesCount(http_metrics.http_requests_total) = 1
    /\ SeriesCount(http_metrics.http_request_size_bytes) = 1
    /\ Total(http_metrics.http_requests_total) = 2

\* C14 as stated, for the metrics finish_request writes: each has at most as
\* many label sets as there are distinct (method, normalized endpoint, status
\* class) tuples among the requests finished so far.
C14_AsStated ==
    \A name \in FinishMetrics :
       SeriesCount(http_metrics[name]) <=
          Cardinality({ <<f.method, _normalize_endpoint(f.path),
                          _get_status_class(f.status_code)>> : f \in finished })

----------------------------------------------------------------------------
(* The request rate after a burst of starts *)

DefaultWindow == 300

\* the time windows the rates are asked for
Windows == {0 - RateWindow, 0, 1, RateWindow, DefaultWindow}

\* start_request, called again and again within the first second
BurstStart ==
    /\ now < 1
    /\ Len(appended) < HistoryLimit + ExtraStarts
    /\ CallStart("GET", PathList, None, now, now, now)
    /\ UNCHANGED otherVars

\* a caller calls calculate_request_rate(time_window), right away or when the
\* burst is about to leave, or has just left, the window of one minute
RateQuery ==
    /\ \E time_window \in Windows, t \in {now, now + RateWindow - 1, now + RateWindow} :
          /\ t <= RateWindow
          /\ now' = t
          /\ call' = [n |-> call.n, op |-> "rate",
                      args |-> [time_window |-> time_window], at |-> t,
                      result |-> calculate_request_rate(http_metrics, time_window, t)]
    /\ UNCHANGED <<http_metrics, started, decremented, appended, finished>>
    /\ UNCHANGED otherVars

NextBurst == BurstStart \/ RateQuery

SpecBurst == Init /\ [][NextBurst]_vars

\* the number of timestamps newer than t - w among the last HistoryLimit
\* timestamps appended
InWindow(w, t) ==
    Cardinality({i \in 1..Len(appended) :
                    i > Len(appended) - HistoryLimit /\ appended[i] > t - w})

\* C15: calculate_request_rate(w) is, for w > 0, the number of history
\* entries newer than now - w divided by w, and 0 for w <= 0 and when no entry
\* is in the window; the history holding 1000 entries at most, the rate is
\* never above 1000 / w however many requests were started.
C15_RateOverWindow ==
    call.op = "rate" =>
       LET w == call.args.time_window
           count == InWindow(w, call.at)
           rate == call.result
       IN  /\ rate.den > 0
           /\ (w > 0 /\ count > 0) => rate.num * w = count * rate.den
           /\ (w <= 0 \/ count = 0) => rate.num = 0
           /\ w > 0 => rate.num * w <= HistoryLimit * rate.den

\* 1200 starts within one second, then the rate over 60 seconds: 1000 / 60
C15_Witness ==
    /\ Len(appended) = 1200
    /\ call.op = "rate"
    /\ call.args.time_window = RateWindow
    /\ call.at < 1
    /\ call.result = [num |-> 1000, den |-> 60]

----------------------------------------------------------------------------
(* The error rate over a window *)

\* the (status_code, response_size, error_type) triples of the completions
RateOutcomes == { <<200, None, None>>, <<500, None, Some("ValueError")>> }

RateStart ==
    /\ call.n < MaxRateCalls
    /\ \E t \in Times : CallStart("POST", PathList, None, t, t, t)
    /\ UNCHANGED otherVars

RateFinish ==
    /\ call.n < MaxRateCalls
    /\ \E request_id \in DOMAIN started, outcome \in RateOutcomes, t \in Times :
          CallFinish(request_id, request_id[1], request_id[2], outcome[1],
                     outcome[2], outcome[3], t, t)
    /\ UNCHANGED otherVars

\* a caller calls get_error_rate(time_window)
ErrorRateQuery ==
    /\ \E time_window \in Windows, t \in Times :
          /\ now <= t
          /\ now' = t
          /\ call' = [n |-> call.n, op |-> "error_rate",
                      args |-> [time_window |-> time_window], at |-> t,
                      result |-> get_error_rate(http_metrics, time_window, t)]
    /\ UNCHANGED <<http_metrics, started, decremented, appended, finished>>
    /\ UNCHANGED otherVars

NextRate == RateStart \/ RateFinish \/ ErrorRateQuery

SpecRate == Init /\ [][NextRate]_vars

\* C16: get_error_rate(w) is the sum of all error-counter series, counted
\* since the start of the process, divided by calculate_request_rate(w) * w
\* and multiplied by 100, that is the all-time errors over the number of
\* history entries in the window; it is 0 when that denominator is <= 0 (no
\* request in the window, or w <= 0).
C16_ErrorRate ==
    call.op = "error_rate" =>
       LET w == call.args.time_window
           errors == Total(http_metrics.http_request_errors_total)
           rate == calculate_request_rate(http_metrics, w, call.at)
           count == InWindow(w, call.at)
           result == call.result
       IN  /\ result.den > 0
           /\ rate.num * w > 0 =>
                 result.num * (rate.num * w) = errors * 100 * rate.den * result.den
           /\ rate.num * w <= 0 => result.num = 0
           /\ (w > 0 /\ count > 0) => result.num * count = errors * 100 * result.den
           /\ (w <= 0 \/ count = 0) => result.num = 0

\* two errors since the start of the process and one request in the window of
\* 60 seconds: an error rate of 200 percent
C16_Witness ==
    /\ call.op = "error_rate"
    /\ call.args.time_window = RateWindow
    /\ Total(http_metrics.http_request_errors_total) = 2
    /\ InWindow(RateWindow, call.at) = 1
    /\ call.result.num = 200 * call.result.den

----------------------------------------------------------------------------
(* The health score and the alert conditions, for given readings and traffic *)

\* the cpu and memory percentages psutil reports
CpuReadings == {0, 21, 64, 65, 80, 85, 160}

MemoryReadings == {0, 10, 68, 69, 85, 86}

\* what psutil reports in the get_system_summary() of the analyzer
AnalysisSamples ==
    { [fail |-> "none", cpu_total |-> 1, cpu_percent |-> c, rss |-> 100, vms |-> 200,
       memory_percent |-> m, fds |-> None, threads |-> 4] :
         c \in CpuReadings, m \in MemoryReadings }
      \cup { [fail |-> f, cpu_total |-> 1, cpu_percent |-> 85, rss |-> 100,
              vms |-> 200, memory_percent |-> 86, fds |-> None, threads |-> 4] :
                f \in {"Process", "memory_info", "num_threads_returned"} }

\* the traffic before the analyzer is called: the numbers of requests that
\* ended well, that ended in an error, and that are still in flight
TrafficCases ==
    { <<0, 0, 0>>, <<10, 0, 2>>, <<39, 1, 1>>, <<19, 1, 100>>, <<9, 1, 101>>,
      <<0, 1, 200>>, <<95, 5, 250>> }

\* a counter with the one series labels at n, without series if n = 0
Counted(labels, n) == IF n > 0 THEN labels :> n ELSE NoSeries

\* The collector after the traffic of a case: traffic[1] requests GET /d/42
\* started and finished with status 200, then traffic[2] started and finished
\* with status 500 and error type ValueError, all at clock value 0, then
\* traffic[3] started at the clock values 1, 2, ... and not finished; none
\* with a request or response size.
Loaded(traffic) ==
    LET ok == traffic[1]
        errors == traffic[2]
        active == traffic[3]
        endpoint == _normalize_endpoint(PathItem)
    IN  [ http_requests_total           |->
              Counted(<<"GET", endpoint, Str(200)>>, ok)
                @@ Counted(<<"GET", endpoint, Str(500)>>, errors),
          http_request_duration_seconds |->
              IF ok + errors > 0
              THEN <<"GET", endpoint>> :> [count |-> ok + errors, sum |-> 0]
              ELSE NoSeries,
          http_request_size_bytes       |-> NoSeries,
          http_response_size_bytes      |-> NoSeries,
          http_requests_active          |-> active,
          http_request_errors_total     |->
              Counted(<<"GET", endpoint, "ValueError", Str(500)>>, errors),
          http_requests_by_status       |->
              Counted(<<"2xx", "GET">>, ok) @@ Counted(<<"5xx", "GET">>, errors),
          http_request_rate_per_second  |-> ok + errors,
          http_slow_requests_total      |-> NoSeries,
          active_requests               |->
              [id \in {RequestId("GET", PathItem, t) : t \in 1..active} |-> id[3]],
          request_history               |->
              [i \in 1..(ok + errors + active) |->
                  IF i <= ok + errors THEN 0 ELSE i - (ok + errors)] ]

\* the state when the analyzer is called after some traffic
InitScore ==
    /\ \E traffic \in TrafficCases :
          /\ http_metrics = Loaded(traffic)
          /\ now = traffic[3]
    /\ call = NoCall
    /\ started = NoSeries
    /\ decremented = NoSeries
    /\ appended = <<>>
    /\ finished = {}
    /\ mw = [r \in Requests |-> [pc |-> "idle"]]
    /\ system_metrics = NewSystemMetricsCollector
    /\ lifespan_pc = "startup"
    /\ task = NoTask
    /\ sampler = NoSampling

\* a caller calls metrics_analyzer.calculate_system_health_score()
HealthScoreCall(samples) ==
    /\ \E sample \in samples :
          LET r == calculate_system_health_score(system_metrics, http_metrics,
                                                 sample, now)
          IN  /\ system_metrics' = r.collector
              /\ call' = [n |-> call.n, op |-> "health_score",
                          args |-> [sample |-> sample,
                                    http |-> get_metrics_summary(http_metrics)],
                          result |-> r.result]
    /\ UNCHANGED <<http_metrics, now, started, decremented, appended, finished,
                   mw, lifespan_pc, task, sampler>>

\* a caller calls metrics_analyzer.get_alert_conditions()
AlertConditionsCall(samples) ==
    /\ \E sample \in samples :
          LET r == get_alert_conditions(system_metrics, http_metrics, sample, now)
          IN  /\ system_metrics' = r.collector
              /\ call' = [n |-> call.n, op |-> "alert_conditions",
                          args |-> [sample |-> sample,
                                    http |-> get_metrics_summary(http_metrics)],
                          result |-> r.result]
    /\ UNCHANGED <<http_metrics, now, started, decremented, appended, finished,
                   mw, lifespan_pc, task, sampler>>

ScoreCheck == HealthScoreCall(AnalysisSamples)

AlertCheck == AlertConditionsCall(AnalysisSamples)

NextScore == ScoreCheck \/ AlertCheck

SpecScore == InitScore /\ [][NextScore]_vars

\* the current value of cpu and of memory that the analyzer sees: the one of
\* the pass, 0 if the pass failed
CurrentCpu == IF call.args.sample.fail = "none" THEN call.args.sample.cpu_percent ELSE 0

CurrentMemory ==
    IF call.args.sample.fail = "none" THEN call.args.sample.memory_percent ELSE 0

\* C17: a component whose current value is 0 scores 100, so that all four and
\* the overall score are 100 when every value is 0; a component whose current
\* value is at least twice its threshold scores 0, and no score is negative.
C17_ScoreEnds ==
    call.op = "health_score" =>
       LET s == call.result.component_scores
           error_rate == call.args.http.error_rate_percent
           active == call.args.http.active_requests
       IN  /\ CurrentCpu = 0 => s.cpu = [num |-> 100, den |-> 1]
           /\ CurrentMemory = 0 => s.memory = [num |-> 100, den |-> 1]
           /\ error_rate.num = 0 => s.error_rate = [num |-> 100, den |-> 1]
           /\ active = 0 => s.load = [num |-> 100, den |-> 1]
           /\ (CurrentCpu = 0 /\ CurrentMemory = 0 /\ error_rate.num = 0 /\ active = 0)
                 => call.result.overall_score = [num |-> 100, den |-> 1]
           /\ CurrentCpu >= 2 * 80 => s.cpu.num = 0
           /\ CurrentMemory >= 2 * 85 => s.memory.num = 0
           /\ error_rate.num >= 2 * 5 * error_rate.den => s.error_rate.num = 0
           /\ active >= 2 * 100 => s.load.num = 0
           /\ \A k \in DOMAIN s : s[k].num >= 0 /\ s[k].den > 0

\* cpu at 160 percent, every second request an error, 200 requests in flight
\* and no memory in use: three components at 0 and one at 100
C17_Witness ==
    /\ call.op = "health_score"
    /\ CurrentCpu = 160
    /\ CurrentMemory = 0
    /\ call.args.http.active_requests = 200
    /\ call.args.http.error_rate_percent.num = 100
    /\ call.result.component_scores =
          [cpu |-> [num |-> 0, den |-> 1], memory |-> [num |-> 100, den |-> 1],
           error_rate |-> [num |-> 0, den |-> 1], load |-> [num |-> 0, den |-> 1]]
    /\ call.result.overall_score = [num |-> 25, den |-> 1]
    /\ call.result.status = "critical"

\* C19: the status is the bucket of the overall score of the same result:
\* "excellent" from 90, "good" from 75, "fair" from 60, "poor" from 40 and
\* "critical" below, the overall score being the mean of the four component
\* scores rounded to 2 decimals.
C19_StatusOfReturnedScore ==
    call.op = "health_score" =>
       LET s == call.result.component_scores
           mean == FracDivInt(FracAdd(FracAdd(s.cpu, s.memory),
                                      FracAdd(s.error_rate, s.load)), 4)
           o == call.result.overall_score
       IN  /\ o = Round2(mean)
           /\ call.result.status =
                 (IF o.num >= 90 * o.den THEN "excellent"
                  ELSE IF o.num >= 75 * o.den THEN "good"
                  ELSE IF o.num >= 60 * o.den THEN "fair"
                  ELSE IF o.num >= 40 * o.den THEN "poor"
                  ELSE "critical")

\* whether a bucket of alerts has an entry of a type
HasAlert(bucket, type) == \E i \in 1..Len(bucket) : bucket[i].type = type

\* C20: cpu and memory each have an entry in the active bucket iff the value
\* is above the threshold (80 and 85), and an entry in the warnings bucket iff
\* the value is above 0.8 times the threshold (64 and 68) and not above the
\* threshold; neither is ever in both buckets.
C20_ResourceAlerts ==
    call.op = "alert_conditions" =>
       LET active == call.result.alerts.active
           warnings == call.result.alerts.warnings
       IN  /\ HasAlert(active, "high_cpu") <=> CurrentCpu > 80
           /\ HasAlert(warnings, "cpu_warning") <=> (CurrentCpu > 64 /\ CurrentCpu <= 80)
           /\ ~(HasAlert(active, "high_cpu") /\ HasAlert(warnings, "cpu_warning"))
           /\ HasAlert(active, "high_memory") <=> CurrentMemory > 85
           /\ HasAlert(warnings, "memory_warning")
                 <=> (CurrentMemory > 68 /\ CurrentMemory <= 85)
           /\ ~(HasAlert(active, "high_memory") /\ HasAlert(warnings, "memory_warning"))
           /\ ~HasAlert(warnings, "high_cpu") /\ ~HasAlert(active, "cpu_warning")
           /\ ~HasAlert(warnings, "high_memory") /\ ~HasAlert(active, "memory_warning")

\* cpu at 65 percent: a warning and no active alert for cpu; memory at 86
\* percent: an active alert
C20_Witness ==
    /\ call.op = "alert_conditions"
    /\ CurrentCpu = 65
    /\ CurrentMemory = 86
    /\ HasAlert(call.result.alerts.warnings, "cpu_warning")
    /\ ~HasAlert(call.result.alerts.active, "high_cpu")
    /\ HasAlert(call.result.alerts.active, "high_memory")

FailedPass == call.args.sample.fail # "none"

ResourceAlertTypes == {"high_cpu", "cpu_warning", "high_memory", "memory_warning"}

\* C29: when the collection pass the analyzer makes fails (whichever psutil
\* call raises) and so returns {}, the health score has the cpu and the memory
\* component at 100, and the alert conditions have no entry for cpu or memory
\* among the active alerts and the warnings and report 0 as their current
\* values.
C29_FailedPassReadsZero ==
    /\ (call.op = "health_score" /\ FailedPass) =>
          /\ call.result.component_scores.cpu = FracOfInt(100)
          /\ call.result.component_scores.memory = FracOfInt(100)
    /\ (call.op = "alert_conditions" /\ FailedPass) =>
          /\ \A type \in ResourceAlertTypes :
                /\ ~HasAlert(call.result.alerts.active, type)
                /\ ~HasAlert(call.result.alerts.warnings, type)
          /\ call.result.current_values.cpu_percent = 0
          /\ call.result.current_values.memory_percent = 0

\* C29: psutil reported 85 percent cpu, which is on the gauge, and then the
\* pass failed at its last call: the alert conditions have nothing on cpu
C29_Witness ==
    /\ call.op = "alert_conditions"
    /\ call.args.sample.fail = "num_threads_returned"
    /\ system_metrics.app_cpu_usage_percent = 85
    /\ ~HasAlert(call.result.alerts.active, "high_cpu")
    /\ call.result.current_values.cpu_percent = 0

----------------------------------------------------------------------------
(* The health score while requests and sampling passes go on *)

\* the background task or an endpoint makes a pass of collect_metrics
SamplingPass ==
    /\ \E sample \in Samples :
          system_metrics' = collect_metrics(system_metrics, sample, now).collector
    /\ UNCHANGED <<http_metrics, now, call, started, decremented, appended, finished,
                   mw, lifespan_pc, task, sampler>>

HealthStart ==
    /\ call.n < MaxHealthCalls
    /\ \E t \in 0..MaxClock : CallStart("POST", PathList, None, t, t, t)
    /\ UNCHANGED otherVars

HealthFinish ==
    /\ call.n < MaxHealthCalls
    /\ \E request_id \in DOMAIN started, outcome \in RateOutcomes, t \in 0..MaxClock :
          CallFinish(request_id, request_id[1], request_id[2], outcome[1],
                     outcome[2], outcome[3], t, t)
    /\ UNCHANGED otherVars

HealthCheck == HealthScoreCall(Samples)

NextHealth == HealthStart \/ HealthFinish \/ SamplingPass \/ HealthCheck

SpecHealth == Init /\ [][NextHealth]_vars

\* a score from 0 to 100
InRange(score) == score.den > 0 /\ score.num >= 0 /\ score.num <= 100 * score.den

\* C18: whatever requests were started and finished and whatever passes were
\* made, the four component scores and the overall score of a health score
\* are between 0 and 100.
C18_ScoresInRange ==
    call.op = "health_score" =>
       /\ DOMAIN call.result.component_scores = {"cpu", "memory", "error_rate", "load"}
       /\ \A k \in DOMAIN call.result.component_scores :
             InRange(call.result.component_scores[k])
       /\ InRange(call.result.overall_score)

\* cpu above its threshold and every request so far an error, with one
\* request in flight: two components at 0, the others and the overall score
\* in between
C18_Witness ==
    /\ call.op = "health_score"
    /\ call.args.sample.cpu_percent = 85
    /\ call.args.sample.fail = "none"
    /\ call.args.http.error_requests = 1
    /\ call.args.http.total_requests = 1
    /\ call.args.http.active_requests = 1
    /\ call.result.component_scores.cpu.num = 0
    /\ call.result.component_scores.error_rate.num = 0
    /\ call.result.component_scores.load = [num |-> 99, den |-> 1]
    /\ call.result.overall_score.num > 0
    /\ call.result.overall_score.num < 100 * call.result.overall_score.den
    /\ system_metrics.app_cpu_usage_percent = 85

----------------------------------------------------------------------------
(* The recommendations of the performance trends *)

\* the window_minutes a caller passes (the default is 5)
WindowMinutes == {0, 1, 5}

\* request rates and error rates around the limits of the three conditions
RateValues ==
    { Frac(0, 1), Frac(1, 60), Frac(50, 1), Frac(101, 2), Frac(51, 1),
      Frac(100, 1), Frac(201, 2), Frac(101, 1), Frac(1000, 1) }

ErrorRateValues ==
    { Frac(0, 1), Frac(2, 1), Frac(5, 2), Frac(3, 1), Frac(5, 1),
      Frac(11, 2), Frac(6, 1), Frac(100, 1), Frac(200, 1) }

TrendStart ==
    /\ call.n < MaxTrendCalls
    /\ \E t \in 0..MaxClock : CallStart("POST", PathList, None, t, t, t)
    /\ UNCHANGED otherVars

TrendFinish ==
    /\ call.n < MaxTrendCalls
    /\ \E request_id \in DOMAIN started, outcome \in RateOutcomes, t \in 0..MaxClock :
          CallFinish(request_id, request_id[1], request_id[2], outcome[1],
                     outcome[2], outcome[3], t, t)
    /\ UNCHANGED otherVars

\* a caller calls metrics_analyzer.get_performance_trends(window_minutes)
TrendsQuery ==
    /\ call.op # "recommend"
    /\ \E window_minutes \in WindowMinutes, t \in Times :
          /\ now <= t
          /\ now' = t
          /\ call' = [n |-> call.n, op |-> "trends",
                      args |-> [window_minutes |-> window_minutes], at |-> t,
                      result |-> get_performance_trends(http_metrics, window_minutes, t, t)]
    /\ UNCHANGED <<http_metrics, started, decremented, appended, finished>>
    /\ UNCHANGED otherVars

\* _generate_recommendations called on its own with given rates
Recommend ==
    /\ call.op = "none"
    /\ \E request_rate \in RateValues, error_rate \in ErrorRateValues :
          call' = [n |-> call.n, op |-> "recommend",
                   args |-> [window_minutes |-> 0], at |-> now,
                   result |-> [request_rate_per_second |-> request_rate,
                               error_rate_percent |-> error_rate,
                               recommendations |->
                                   _generate_recommendations(request_rate, error_rate)]]
    /\ UNCHANGED <<http_metrics, now, started, decremented, appended, finished>>
    /\ UNCHANGED otherVars

NextTrends == TrendStart \/ TrendFinish \/ TrendsQuery \/ Recommend

SpecTrends == Init /\ [][NextTrends]_vars

\* whether every element of the sequence `part` is in the sequence `list`
Contains(list, part) ==
    \A i \in 1..Len(part) : \E j \in 1..Len(list) : list[j] = part[i]

TrendsCall == call.op \in {"trends", "recommend"}

HighTraffic == FracGt(call.result.request_rate_per_second, 100)

HighErrorRate == FracGt(call.result.error_rate_percent, 5)

TrafficWithErrors ==
    /\ FracGt(call.result.request_rate_per_second, 50)
    /\ FracGt(call.result.error_rate_percent, 2)

\* C21: the recommendation list is never empty; it contains the baseline
\* message iff none of the three conditions (rate > 100; error rate > 5;
\* rate > 50 and error rate > 2) holds; and it contains the recommendations
\* of every condition that holds and of no condition that does not hold
C21_Recommendations ==
    TrendsCall =>
        LET list == call.result.recommendations
        IN  /\ list # <<>>
            /\ Contains(list, Baseline)
                 <=> ~(HighTraffic \/ HighErrorRate \/ TrafficWithErrors)
            /\ Contains(list, RateLimiting) <=> HighTraffic
            /\ Contains(list, HighErrors) <=> HighErrorRate
            /\ Contains(list, ScaleOut) <=> TrafficWithErrors

\* C21: a call where the first and the third condition hold and the second
\* does not, after which the list has the three recommendations of the two
C21_Witness ==
    /\ TrendsCall
    /\ HighTraffic /\ ~HighErrorRate /\ TrafficWithErrors
    /\ call.result.recommendations = RateLimiting \o ScaleOut

----------------------------------------------------------------------------
(* What each operation leaves alone: the in-flight map and the history *)

\* the clock values of the calls: the start of the run and more than a rate
\* window later
FrameTimes == {0, RateWindow + 1}

\* the (status_code, response_size, error_type) triples of the completions:
\* with and without an error type, below and above status 400
FrameOutcomes == { <<200, Some(120), None>>, <<200, None, Some("ValueError")>>,
                   <<404, None, Some("")>> }

\* whether the run so far is nothing but starts of GET /d/42 at clock value 0
OnlyFirstStarts ==
    /\ call.op \in {"none", "start"}
    /\ call.n = Len(appended)
    /\ now = 0
    /\ DOMAIN started \subseteq {RequestId("GET", PathItem, 0)}

\* the calls are free at the start of the run and once the history is full
FreePhase ==
    \/ call.n < MaxFrameCalls
    \/ call.n >= HistoryLimit - 1 /\ call.n < HistoryLimit + MaxFrameCalls

\* a burst of requests GET /d/42 within one clock value fills the history
FrameFill ==
    /\ OnlyFirstStarts
    /\ call.n < HistoryLimit - 1
    /\ CallStart("GET", PathItem, None, 0, 0, 0)
    /\ UNCHANGED otherVars

FrameStart ==
    /\ FreePhase
    /\ \E route \in Routes, t \in FrameTimes : CallStart(route[1], route[2], None, t, t, t)
    /\ UNCHANGED otherVars

FrameFinish ==
    /\ FreePhase
    /\ \E request_id \in DOMAIN started, outcome \in FrameOutcomes, t \in FrameTimes :
          CallFinish(request_id, request_id[1], request_id[2], outcome[1],
                     outcome[2], outcome[3], t, t)
    /\ UNCHANGED otherVars

\* a caller calls calculate_request_rate(), get_error_rate() or
\* get_metrics_summary()
FrameRead ==
    /\ call.n <= MaxFrameCalls \/ call.n >= HistoryLimit - 1
    /\ call.op \in {"start", "finish"}
    /\ \E op \in {"rate", "error_rate", "summary"} :
          call' = [n |-> call.n, op |-> op, args |-> <<>>, at |-> now,
                   result |->
                     CASE op = "rate" ->
                            calculate_request_rate(http_metrics, DefaultWindow, now)
                       [] op = "error_rate" ->
                            get_error_rate(http_metrics, DefaultWindow, now)
                       [] op = "summary" ->
                            get_metrics_summary(http_metrics).error_rate_percent]
    /\ UNCHANGED <<http_metrics, now, started, decremented, appended, finished>>
    /\ UNCHANGED otherVars

\* a pass of the sampler while requests are in flight
FrameSampling ==
    /\ FreePhase
    /\ system_metrics = NewSystemMetricsCollector
    /\ DOMAIN http_metrics.active_requests # {}
    /\ \E sample \in Samples :
          /\ sample.fail = "none" /\ sample.fds = None
          /\ system_metrics' = collect_metrics(system_metrics, sample, now).collector
    /\ UNCHANGED <<http_metrics, now, call, started, decremented, appended, finished,
                   mw, lifespan_pc, task, sampler>>

NextFrames == FrameFill \/ FrameStart \/ FrameFinish \/ FrameRead \/ FrameSampling

SpecFrames == Init /\ [][NextFrames]_vars

InFlight == DOMAIN http_metrics.active_requests

\* C22: an entry comes into the in-flight map only by a start_request that
\* returns its id and leaves it only by a finish_request called with its id;
\* every other step (starts and finishes of other requests, starts that evict
\* from the history, reads, sampling passes) keeps it, and while the map has
\* an entry the active gauge is at least 1.
C22_EntryKept ==
    /\ [][ /\ \A id \in InFlight' \ InFlight :
                call'.op = "start" /\ call'.n = call.n + 1 /\ call'.request_id = id
           /\ \A id \in InFlight \ InFlight' :
                call'.op = "finish" /\ call'.n = call.n + 1 /\ call'.request_id = id
         ]_vars
    /\ [](InFlight # {} => http_metrics.http_requests_active >= 1)

\* C22: GET /d/42 started at 0 is still in flight after its timestamp was
\* evicted from the history, another request was started and finished more
\* than a minute later, and a pass of the sampler was made
C22_Witness ==
    /\ RequestId("GET", PathItem, 0) \in InFlight
    /\ Len(appended) > HistoryLimit
    /\ call.op = "finish" /\ call.known
    /\ call.request_id = RequestId("POST", PathList, RateWindow + 1)
    /\ system_metrics # NewSystemMetricsCollector
    /\ http_metrics.http_requests_active >= 1

StartStep == call'.op = "start" /\ call'.n = call.n + 1

\* C23: the history changes only in a step of start_request, and such a step
\* appends its timestamp and removes the oldest entry exactly when the history
\* already held 1000; finish_request (with its update of the rate gauge),
\* calculate_request_rate, get_error_rate and get_metrics_summary leave it as
\* it is.
C23_HistoryFrame ==
    [][ LET history == http_metrics.request_history
            after == http_metrics'.request_history
        IN  /\ after # history => StartStep
            /\ StartStep =>
                  after = IF Len(history) < HistoryLimit
                          THEN Append(history, now')
                          ELSE Append(Tail(history), now')
      ]_vars

\* C23: the history is full and has lost its oldest entries, a request was
\* finished more than a minute after the first start, and a read was made
C23_Witness ==
    /\ Len(appended) > HistoryLimit
    /\ Len(http_metrics.request_history) = HistoryLimit
    /\ http_metrics.request_history = LastN(appended, HistoryLimit)
    /\ http_metrics.request_history[HistoryLimit] = RateWindow + 1
    /\ decremented # NoSeries
    /\ call.op \in {"rate", "error_rate", "summary"}

\* C24: in every state reached by start_request and finish_request calls the
\* active-requests gauge equals the number of entries of the in-flight map
\* (and so is never negative).
C24_GaugeIsInFlightCount ==
    http_metrics.http_requests_active = Cardinality(InFlight)

\* C25: the error counters hold in total at most as much as the
\* total-requests counters, so the error_rate_percent of get_metrics_summary
\* is a number between 0 and 100, and 0 while no request has finished; the
\* same holds of the value a call of get_metrics_summary returned.
C25_ErrorsWithinTotal ==
    LET errors == Total(http_metrics.http_request_errors_total)
        total == Total(http_metrics.http_requests_total)
        percent == get_metrics_summary(http_metrics).error_rate_percent
    IN  /\ errors <= total
        /\ percent.den >= 1
        /\ percent.num >= 0 /\ percent.num <= 100 * percent.den
        /\ total = 0 => percent.num = 0
        /\ call.op = "summary" => call.result = percent

\* C25: get_metrics_summary is called after two requests have finished, one
\* of them with an error, and reports 50 percent
C25_Witness ==
    /\ call.op = "summary"
    /\ Total(http_metrics.http_requests_total) = 2
    /\ Total(http_metrics.http_request_errors_total) = 1
    /\ call.result.num = 50 * call.result.den

----------------------------------------------------------------------------
(* The range of the error rate over a window, under SpecRate *)

\* C26: the value get_error_rate(w) returns is never negative; it is 0 when
\* no error was counted, when w <= 0 and when no history entry is newer than
\* now - w; and it is above 100 whenever the errors counted since the start of
\* the process are more than the history entries in the window.
C26_ErrorRateRange ==
    call.op = "error_rate" =>
       LET w == call.args.time_window
           errors == Total(http_metrics.http_request_errors_total)
           count == InWindow(w, call.at)
           result == call.result
       IN  /\ result.den > 0 /\ result.num >= 0
           /\ (errors = 0 \/ w <= 0 \/ count = 0) => result.num = 0
           /\ (w > 0 /\ count > 0 /\ errors > count) => result.num > 100 * result.den

\* C26: two requests ended in an error and one of them was started within the
\* last second: over a window of one second the error rate is above 100
C26_Witness ==
    /\ call.op = "error_rate"
    /\ call.args.time_window = 1
    /\ Total(http_metrics.http_request_errors_total) = 2
    /\ InWindow(1, call.at) = 1
    /\ call.result.num > 100 * call.result.den

\* C26 as stated: the value get_error_rate returns is between 0 and 100
C26_AsStated ==
    call.op = "error_rate" =>
       /\ call.result.num >= 0
       /\ call.result.num <= 100 * call.result.den

----------------------------------------------------------------------------
(* finish_request called for one id by two tasks of the event loop *)

\* finish_request with an await between its guard and its pop
finish_request_with_await == TRUE

\* whether the event loop can run another task between the guard of
\* finish_request and its pop: finish_request is a plain "def" without an
\* await, called from the coroutine dispatch, so it cannot
finish_request_suspends == FALSE

\* no task is between the guard and the pop of finish_request
LoopFree == finish_request_suspends \/ \A q \in Requests : mw[q].pc # "popping"

\* a task starts a request; two tasks that start the same method and path at
\* the same clock value hold the same id, and the start of the second makes a
\* new entry (fresh) only if the first has finished
DupStart(r) ==
    /\ mw[r].pc = "idle"
    /\ LoopFree
    /\ \E route \in Routes, t \in 0..MaxClock :
          /\ CallStart(route[1], route[2], None, t, t, t)
          /\ mw' = [mw EXCEPT ![r] =
                      [pc |-> "awaiting", method |-> route[1], path |-> route[2],
                       request_id |-> RequestId(route[1], route[2], t),
                       fresh |-> RequestId(route[1], route[2], t) \notin InFlight,
                       outcome |-> <<>>, ended |-> "", recorded |-> FALSE]]
    /\ UNCHANGED <<system_metrics, lifespan_pc, task, sampler>>

\* a task calls finish_request with its id: the guard "if request_id not in
\* self.active_requests: return"
DupGuard(r) ==
    /\ mw[r].pc = "awaiting"
    /\ LoopFree
    /\ \E outcome \in RateOutcomes :
          IF mw[r].request_id \notin InFlight
          THEN mw' = [mw EXCEPT ![r].pc = "done", ![r].outcome = outcome,
                                ![r].ended = "returned"]
          ELSE mw' = [mw EXCEPT ![r].pc = "popping", ![r].outcome = outcome]
    /\ UNCHANGED <<http_metrics, now, call, started, decremented, appended, finished,
                   system_metrics, lifespan_pc, task, sampler>>

\* the rest of finish_request, from "self.active_requests.pop(request_id)":
\* pop raises KeyError when the entry is not in the map
DupPop(r) ==
    /\ mw[r].pc = "popping"
    /\ IF mw[r].request_id \notin InFlight
       THEN /\ mw' = [mw EXCEPT ![r].pc = "done", ![r].ended = "KeyError"]
            /\ UNCHANGED <<http_metrics, now, decremented, finished>>
       ELSE \E t \in 0..MaxClock :
               /\ now <= t
               /\ http_metrics' =
                    RecordCompletion(http_metrics, mw[r].request_id, mw[r].method,
                                     mw[r].path, mw[r].outcome[1], mw[r].outcome[2],
                                     mw[r].outcome[3], t, t)
               /\ now' = t
               /\ decremented' = Inc(decremented, mw[r].request_id)
               /\ finished' = finished \cup {[method |-> mw[r].method,
                                              path |-> mw[r].path,
                                              status_code |-> mw[r].outcome[1],
                                              error_type |-> mw[r].outcome[3]]}
               /\ mw' = [mw EXCEPT ![r].pc = "done", ![r].ended = "returned",
                                   ![r].recorded = TRUE]
    /\ UNCHANGED <<call, started, appended, system_metrics, lifespan_pc, task, sampler>>

NextDuplicate == \E r \in Requests : DupStart(r) \/ DupGuard(r) \/ DupPop(r)

SpecDuplicate == Init /\ [][NextDuplicate]_vars

\* the tasks whose start_request made the in-flight entry of the id
Entries(id) == {r \in Requests : mw[r].pc # "idle" /\ mw[r].request_id = id /\ mw[r].fresh}

\* the tasks whose finish_request recorded a completion for the id
Recorded(id) ==
    {r \in Requests : mw[r].pc = "done" /\ mw[r].request_id = id /\ mw[r].recorded}

\* C28: of the finish_request calls made with the id of one in-flight entry
\* by tasks that hold it at the same time, exactly one records the completion
\* (one decrement of the gauge, one increment of the total-requests counter),
\* the others change nothing, and none raises: an id has as many completions
\* recorded as entries were made for it, less the one still in flight.
C28_OneCompletion ==
    /\ \A r \in Requests : mw[r].pc = "done" => mw[r].ended = "returned"
    /\ \A id \in DOMAIN started :
          /\ Cardinality(Recorded(id)) = Series(decremented, id)
          /\ Series(decremented, id)
                = Cardinality(Entries(id)) - (IF id \in InFlight THEN 1 ELSE 0)
    /\ Total(http_metrics.http_requests_total) = Total(decremented)
    /\ http_metrics.http_requests_active
          = Cardinality({r \in Requests : mw[r].pc # "idle"}) - Total(decremented)

\* C28: two tasks held the same id while both were awaiting their handlers,
\* both have called finish_request, and one completion is recorded
C28_Witness ==
    \E r1, r2 \in Requests :
       /\ r1 # r2
       /\ mw[r1].pc = "done" /\ mw[r2].pc = "done"
       /\ mw[r1].request_id = mw[r2].request_id
       /\ mw[r1].recorded /\ ~mw[r2].recorded
       /\ mw[r2].ended = "returned"
       /\ started[mw[r1].request_id] = 2
       /\ Total(http_metrics.http_requests_total) = 1

----------------------------------------------------------------------------
(* The detailed health check, for given readings and traffic *)

\* a client requests GET /health/detailed
DetailedCheck ==
    /\ \E sample \in AnalysisSamples :
          LET r == detailed_health_check(system_metrics, http_metrics, sample, now)
          IN  /\ system_metrics' = r.collector
              /\ call' = [n |-> call.n, op |-> "detailed_health",
                          args |-> [sample |-> sample,
                                    http |-> get_metrics_summary(http_metrics)],
                          result |-> r.result]
    /\ UNCHANGED <<http_metrics, now, started, decremented, appended, finished,
                   mw, lifespan_pc, task, sampler>>

SpecDetailed == InitScore /\ [][DetailedCheck]_vars

HasIssue(kind) ==
    \E i \in 1..Len(call.result.issues) : call.result.issues[i].kind = kind

\* C30: the status of the detailed health check is "healthy" iff the issues
\* list is empty, which is iff cpu <= 80, memory <= 85 and active requests
\* <= 100; it is "critical" iff cpu > 80 and memory > 85; it is "warning" in
\* every other case, so with a high number of active requests alone; and the
\* issues list has an entry for exactly the limits that are exceeded.
C30_DetailedStatus ==
    call.op = "detailed_health" =>
       LET cpu == CurrentCpu
           memory == CurrentMemory
           active == http_metrics.http_requests_active
           status == call.result.status
       IN  /\ status \in {"healthy", "warning", "critical"}
           /\ status = "healthy" <=> call.result.issues = <<>>
           /\ status = "healthy" <=> (cpu <= 80 /\ memory <= 85 /\ active <= 100)
           /\ status = "critical" <=> (cpu > 80 /\ memory > 85)
           /\ (cpu <= 80 /\ memory <= 85 /\ active > 100) => status = "warning"
           /\ HasIssue("High CPU usage") <=> cpu > 80
           /\ HasIssue("High memory usage") <=> memory > 85
           /\ HasIssue("High number of active requests") <=> active > 100

\* C30: 200 requests in flight with cpu and memory within their limits: the
\* status is "warning" and the one issue is the number of active requests
C30_Witness ==
    /\ call.op = "detailed_health"
    /\ http_metrics.http_requests_active = 200
    /\ CurrentCpu = 80 /\ CurrentMemory = 85
    /\ call.result.status = "warning"
    /\ call.result.issues = <<Issue("High number of active requests", 200)>>

====
